---- MODULE Spec2Model ----
(***************************************************************************)
(* Model of the multi-unit container of astrodata/fits.py: FitsProvider    *)
(* (the Container), FitsProviderProxy (the View) and normalize_indices.    *)
(*                                                                         *)
(* NDData objects live in a heap and are referred to by reference, as in   *)
(* Python: the Container's _nddata is a list of references, and append     *)
(* stores the object it is given without copying it.  An object that no    *)
(* unit refers to any more is garbage and leaves the heap; references are  *)
(* kept in order of first use, since only which positions share an object  *)
(* can be observed.                                                        *)
(***************************************************************************)
EXTENDS Integers, Sequences, FiniteSets, TLC

VARIABLES
    heap,     \* the live NDData objects, by reference 1..Len(heap)
    nddata,   \* FitsProvider._nddata: references, in position order
    views,    \* the live FitsProviderProxy objects: [mapping, single]
    attrs,    \* instance attributes set on the FitsProvider object itself
    event,    \* the last operation called, its arguments and its outcome
    logger    \* the astropy logger: its level, and conf.log_level

vars == <<heap, nddata, views, attrs, event, logger>>

(* ------------------------------ bounds -------------------------------- *)
MaxUnits == 3
MaxVer == 4

(* --------------------------- program values --------------------------- *)
NONE == "None"
default_extension == "SCI"
NoVer == -1
Pixels == {1}
ExtNames == {NONE, "SCI", "DQ", "FOO"}
Nothing == <<>>

(* The astropy logger as a session starts: astropy.log.level is what       *)
(* conf.log_level configures.                                              *)
Logger0 == [level |-> "INFO", conf |-> "INFO"]
Some(x) == <<x>>

(* The shape of every array given to append in the specifications below.  *)
Shape0 == <<2, 2>>

(* An NDData object: header EXTNAME/EXTVER, meta['ver'], the pixel planes  *)
(* (one abstract pixel each; Nothing is Python's None), the shape of the   *)
(* data array, meta['other'] and meta['other_header'] (by name), the keys  *)
(* of meta['other'] in the order the dict keeps them (keys), and the       *)
(* attributes set on the object itself (dict, by name).                    *)
NewND(hname, hver, data, mask, unc) ==
    [hname |-> hname, hver |-> hver, ver |-> NoVer, data |-> data,
     mask |-> mask, unc |-> unc, wcs |-> Nothing, other |-> <<>>,
     shape |-> Shape0, other_header |-> <<>>, keys |-> <<>>, dict |-> <<>>]

(* d[k] = v on a Python dict d, and what it does to the order of its keys: *)
(* a new key comes last, a key already there keeps its place.              *)
SetItem(d, k, v) ==
    [n \in DOMAIN d \cup {k} |-> IF n = k THEN v ELSE d[n]]
SetKey(keys, k) ==
    IF \E i \in 1..Len(keys) : keys[i] = k THEN keys ELSE Append(keys, k)
(* The names of a set in the order of a list of them.                      *)
KeysIn(order, names) == SelectSeq(order, LAMBDA n : n \in names)

At(s, i) == s[i + 1]
Refs == 1..Len(heap)
(* Allocation of a new object, and what is left of a heap once the objects *)
(* that no unit of nds refers to are gone.                                 *)
NewRef(h) == Len(h) + 1
Alloc(h, obj) == Append(h, obj)
FirstUse(nds) == {k \in 1..Len(nds) : \A j \in 1..(k - 1) : nds[j] # nds[k]}
Rank(nds, r) ==
    LET first == CHOOSE k \in FirstUse(nds) : nds[k] = r
    IN  Cardinality({k \in FirstUse(nds) : k <= first})
InOrder(h, nds) == Len(h) = Len(nds) /\ \A k \in 1..Len(nds) : nds[k] = k
Collect(h, nds) ==
    IF InOrder(h, nds) THEN h
    ELSE [i \in 1..Cardinality(FirstUse(nds)) |->
            h[nds[CHOOSE k \in FirstUse(nds) : Rank(nds, nds[k]) = i]]]
Renamed(nds) == [k \in 1..Len(nds) |-> Rank(nds, nds[k])]
Unit(i) == heap[At(nddata, i)]
SetMax(S) == CHOOSE m \in S : \A x \in S : x <= m

(* Selectors of __getitem__: an integer, a tuple of integers, a slice      *)
(* (start, stop and step are Nothing or Some(k)), or another object.       *)
IntSel(i) ==
    [kind |-> "int", ints |-> <<i>>, start |-> Nothing, stop |-> Nothing,
     step |-> Nothing]
TupleSel(t) ==
    [kind |-> "tuple", ints |-> t, start |-> Nothing, stop |-> Nothing,
     step |-> Nothing]
SliceSel(a, b, c) ==
    [kind |-> "slice", ints |-> <<>>, start |-> a, stop |-> b, step |-> c]
OtherSel ==
    [kind |-> "other", ints |-> <<>>, start |-> Nothing, stop |-> Nothing,
     step |-> Nothing]

(* The record of the last call: the operation, how it ended ("ok" or the   *)
(* exception raised), its name and index arguments, its selector, and the  *)
(* Views it returned or yielded.                                           *)
NoEvent ==
    [op |-> "init", res |-> "ok", name |-> NONE, idx |-> 0,
     sel |-> OtherSel, out |-> <<>>]

Ev(op, res, name, idx, ref, target) ==
    [op |-> op, res |-> res, name |-> name, idx |-> idx,
     sel |-> OtherSel, out |-> <<>>]

(* The record of an append of an image unit or a data object also keeps    *)
(* the reset_ver argument and the EXTNAME and EXTVER the object carried    *)
(* (NONE and NoVer when it carried none).                                  *)
EvAppend(op, res, name, reset_ver, hname, carried) ==
    [op |-> op, res |-> res, name |-> name, idx |-> 0,
     sel |-> OtherSel, out |-> <<>>, reset_ver |-> reset_ver,
     hname |-> hname, carried |-> carried]

EvSel(op, res, n, sel, out) ==
    [op |-> op, res |-> res, name |-> NONE, idx |-> n, sel |-> sel,
     out |-> out]

(* ------------------------- version assignment ------------------------- *)
(* Faulty variant: numbers the new unit by the count of units.                     *)
_get_max_ver_count(h, nds) == Len(nds) + 1

_get_max_ver(h, nds) ==
    IF nds = <<>> THEN 1
    ELSE SetMax({h[nds[k]].ver : k \in 1..Len(nds)}) + 1

_reset_ver(h, nds, r) ==
    LET ver == _get_max_ver(h, nds)
    IN  [h EXCEPT ![r].hver = ver, ![r].ver = ver]

(* _process_pixel_plane on the object r of heap h (already constructed     *)
(* from the ImageHDU or array when the input was not an NDData).           *)
(* custom_header is Nothing or Some([hname, hver]).                        *)
_process_pixel_plane(h, nds, r, name, top_level, reset_ver, custom_header) ==
    LET h1 == IF custom_header # Nothing
              THEN [h EXCEPT ![r].hname = custom_header[1].hname,
                             ![r].hver = custom_header[1].hver]
              ELSE h
        currname == h1[r].hname
        ver == h1[r].hver
        h2 == IF name # NONE /\ currname = NONE
              THEN [h1 EXCEPT ![r].hname = name]
              ELSE h1
    IN  IF top_level
        THEN IF reset_ver \/ ver = NoVer
             THEN _reset_ver(h2, nds, r)
             ELSE [h2 EXCEPT ![r].ver = ver]
        ELSE h2

(* Faulty variant: stores the object before it looks at its name, so a     *)
(* rejected image unit stays in the unit list.                             *)
_append_nddata_orphan(h, nds, r, add_to) ==
    LET hname == IF h[r].hname = NONE THEN default_extension ELSE h[r].hname
    IN  IF add_to # 0
        THEN [res |-> "TypeError", heap |-> h, nddata |-> nds]
        ELSE [res |-> IF hname = default_extension THEN "ok"
                      ELSE "ValueError",
              heap |-> _reset_ver(h, nds, r), nddata |-> Append(nds, r)]

(* _append_nddata: the outcome [res, heap, nddata] of appending object r.  *)
(* No caller passes reset_ver, so it is always True here.                  *)
_append_nddata(h, nds, r, add_to) ==
    LET hname == IF h[r].hname = NONE THEN default_extension ELSE h[r].hname
    IN  IF add_to # 0
        THEN [res |-> "TypeError", heap |-> h, nddata |-> nds]
        ELSE IF hname = default_extension
        THEN [res |-> "ok", heap |-> _reset_ver(h, nds, r),
              nddata |-> Append(nds, r)]
        ELSE [res |-> "ValueError", heap |-> h, nddata |-> nds]

(* The top-level branch of _append_imagehdu: a new object is built from    *)
(* the HDU (with its own header; custom_header is not used for an          *)
(* ImageHDU), processed and appended.                                      *)
_append_imagehdu_top(h, nds, hdu, name, reset_ver) ==
    LET r == NewRef(h)
        h0 == Alloc(h, NewND(hdu.hname, hdu.hver, hdu.data, Nothing, Nothing))
        h1 == _process_pixel_plane(h0, nds, r, name, TRUE, reset_ver, Nothing)
    IN  _append_nddata(h1, nds, r, 0)

(* _add_to_other: header is Nothing or Some([hname, hver]); the stored     *)
(* header gets the version of the unit as EXTVER.                          *)
_add_to_other(h, add_to, name, data, header) ==
    LET h1 == [h EXCEPT ![add_to].other = SetItem(@, name, data),
                        ![add_to].keys = SetKey(@, name)]
    IN  IF header = Nothing THEN h1
        ELSE [h1 EXCEPT ![add_to].other_header =
                 SetItem(@, name, [hname |-> header[1].hname,
                                   hver |-> h[add_to].ver])]

(* _append_array: a raw array, top level (add_to = 0) or attached to the   *)
(* object add_to.                                                          *)
_append_array(h, nds, data, name, add_to) ==
    IF add_to = 0
    THEN LET nm == IF name = NONE THEN default_extension ELSE name
         IN  IF nm \in {"DQ", "VAR"}
             THEN [res |-> "ValueError", heap |-> h, nddata |-> nds]
             ELSE _append_imagehdu_top(h, nds,
                      [hname |-> nm, hver |-> NoVer, data |-> data], nm, TRUE)
    ELSE IF name = NONE \/ name = default_extension
         THEN [res |-> "ValueError", heap |-> h, nddata |-> nds]
         ELSE IF name = "DQ"
         THEN [res |-> "ok", heap |-> [h EXCEPT ![add_to].mask = Some(data)],
               nddata |-> nds]
         ELSE IF name = "VAR"
         THEN [res |-> "ok", heap |-> [h EXCEPT ![add_to].unc = Some(data)],
               nddata |-> nds]
         ELSE [res |-> "ok",
               heap |-> _add_to_other(h, add_to, name, data, Nothing),
               nddata |-> nds]

_append_imagehdu(h, nds, hdu, name, add_to, reset_ver) ==
    IF name \in {"DQ", "VAR"} \/ add_to # 0
    THEN _append_array(h, nds, hdu.data, name, add_to)
    ELSE _append_imagehdu_top(h, nds, hdu, name, reset_ver)

(* _append_raw_nddata on the object r (an NDDataObject is stored as it is, *)
(* not copied).                                                            *)
_append_raw_nddata(h, nds, r, name, header, add_to, reset_ver) ==
    LET h1 == _process_pixel_plane(h, nds, r, NONE, add_to = 0, reset_ver,
                                   header)
    IN  _append_nddata(h1, nds, r, add_to)

(* _append_astrodata: r is the deep copy of the single slice's unit.       *)
_append_astrodata(h, nds, r, is_single, header, add_to) ==
    IF ~is_single \/ add_to # 0
    THEN [res |-> "ValueError", heap |-> h, nddata |-> nds]
    ELSE LET h1 == IF header # Nothing
                   THEN [h EXCEPT ![r].hname = header[1].hname,
                                  ![r].hver = header[1].hver]
                   ELSE h
         IN  _append_nddata(h1, nds, r, 0)

(* _process_table: the Table built from the table given, with the name     *)
(* given, else the EXTNAME of the header given, else its own EXTNAME.      *)
_process_table(table, name, header) ==
    [kind |-> "table",
     hname |-> IF name # NONE THEN name
               ELSE IF header # Nothing THEN header[1].hname
               ELSE table.hname]

(* 'TABLE{}'.format(table_num), and the first of these names, from n on,   *)
(* that is not in the set taken.                                           *)
TableName(n) == "TABLE" \o ToString(n)
RECURSIVE FirstTableName(_, _)
FirstTableName(taken, n) ==
    IF TableName(n) \in taken THEN FirstTableName(taken, n + 1)
    ELSE TableName(n)

(* _append_table: the outcome [res, heap, nddata, attrs]; at is the        *)
(* Container's own attributes (its tables are among them).  A table of the *)
(* unit is an attribute of the NDData object and an entry of its other.    *)
_append_table(h, nds, at, new_table, name, header, add_to) ==
    LET tb == _process_table(new_table, name, header)
        taken == IF add_to = 0 THEN DOMAIN at ELSE DOMAIN h[add_to].dict
        hname == IF tb.hname = NONE THEN FirstTableName(taken, 1)
                 ELSE tb.hname
    IN  IF add_to = 0
        THEN [res |-> "ok", heap |-> h, nddata |-> nds,
              attrs |-> SetItem(at, hname, tb)]
        ELSE LET h1 == [h EXCEPT ![add_to].dict = SetItem(@, hname, tb)]
                 h2 == _add_to_other(h1, add_to, hname, tb, Some(tb))
             IN  [res |-> "ok",
                  heap |-> [h2 EXCEPT ![add_to].other = SetItem(@, hname, tb)],
                  nddata |-> nds, attrs |-> at]

(* append for a Table, an ImageHDU or an array (ext.kind), with the target *)
(* add_to (0 is None): the outcome [res, heap, nddata, attrs].             *)
append(h, nds, at, ext, name, add_to) ==
    IF ext.kind = "table"
    THEN _append_table(h, nds, at, ext, name, Nothing, add_to)
    ELSE LET out == IF ext.kind = "imagehdu"
                    THEN _append_imagehdu(h, nds,
                             [hname |-> ext.hname, hver |-> NoVer,
                              data |-> ext.data], name, add_to, TRUE)
                    ELSE _append_array(h, nds, ext.data, name, add_to)
         IN  [res |-> out.res, heap |-> out.heap, nddata |-> out.nddata,
              attrs |-> at]

(* Python's list[i] for an integer i: the position, or -1 (IndexError).    *)
PyIndex(i, n) ==
    IF 0 <= i /\ i < n THEN i
    ELSE IF -n <= i /\ i < 0 THEN n + i
    ELSE -1

(* Faulty variant: removes the last unit whatever the index.                       *)
__delitem___last(nds, idx) == SubSeq(nds, 1, Len(nds) - 1)

__delitem__(nds, idx) ==
    LET p == PyIndex(idx, Len(nds))
    IN  [k \in 1..(Len(nds) - 1) |-> IF k <= p THEN nds[k] ELSE nds[k + 1]]

(* ------------------------------ slicing ------------------------------- *)
Min2(a, b) == IF a <= b THEN a ELSE b
Max2(a, b) == IF a >= b THEN a ELSE b

(* slice.indices(n) of Python for a non-zero step: (start, stop, step).    *)
SliceIndices(slc, n) ==
    LET step == IF slc.step = Nothing THEN 1 ELSE slc.step[1]
        lower == IF step < 0 THEN -1 ELSE 0
        upper == IF step < 0 THEN n - 1 ELSE n
        clamp(x) == IF x < 0 THEN Max2(x + n, lower) ELSE Min2(x, upper)
        start == IF slc.start = Nothing
                 THEN (IF step < 0 THEN upper ELSE lower)
                 ELSE clamp(slc.start[1])
        stop == IF slc.stop = Nothing
                THEN (IF step < 0 THEN lower ELSE upper)
                ELSE clamp(slc.stop[1])
    IN  <<start, stop, step>>

(* list(range(start, stop, step)) of Python.                               *)
RangeList(start, stop, step) ==
    LET span == IF step > 0 THEN stop - start ELSE start - stop
        mag == IF step > 0 THEN step ELSE -step
        len == IF span <= 0 THEN 0 ELSE (span + mag - 1) \div mag
    IN  [k \in 1..len |-> start + (k - 1) * step]

(* Faulty variant: a selection of exactly one index is not multiple.               *)
normalize_indices_bylen(slc, nitems) ==
    LET raw ==
            IF slc.kind = "slice"
            THEN IF slc.step = Some(0)
                 THEN [res |-> "ValueError", indices |-> <<>>, multiple |-> TRUE]
                 ELSE LET ssi == SliceIndices(slc, nitems)
                          ind == RangeList(ssi[1], ssi[2], ssi[3])
                      IN  [res |-> "ok", indices |-> ind,
                           multiple |-> Len(ind) # 1]
            ELSE IF slc.kind \in {"int", "tuple"}
            THEN [res |-> "ok",
                  indices |-> [k \in 1..Len(slc.ints) |->
                                  IF slc.ints[k] >= 0 THEN slc.ints[k]
                                  ELSE nitems + slc.ints[k]],
                  multiple |-> Len(slc.ints) # 1]
            ELSE [res |-> "ValueError", indices |-> <<>>, multiple |-> TRUE]
    IN  IF raw.res = "ok" /\ \E k \in 1..Len(raw.indices) : raw.indices[k] >= nitems
        THEN [res |-> "IndexError", indices |-> <<>>, multiple |-> TRUE]
        ELSE raw

normalize_indices(slc, nitems) ==
    LET raw ==
            IF slc.kind = "slice"
            THEN IF slc.step = Some(0)
                 THEN [res |-> "ValueError", indices |-> <<>>, multiple |-> TRUE]
                 ELSE LET ssi == SliceIndices(slc, nitems)
                      IN  [res |-> "ok",
                           indices |-> RangeList(ssi[1], ssi[2], ssi[3]),
                           multiple |-> TRUE]
            ELSE IF slc.kind \in {"int", "tuple"}
            THEN [res |-> "ok",
                  indices |-> [k \in 1..Len(slc.ints) |->
                                  IF slc.ints[k] >= 0 THEN slc.ints[k]
                                  ELSE nitems + slc.ints[k]],
                  multiple |-> slc.kind = "tuple"]
            ELSE [res |-> "ValueError", indices |-> <<>>, multiple |-> TRUE]
    IN  IF raw.res = "ok" /\ \E k \in 1..Len(raw.indices) : raw.indices[k] >= nitems
        THEN [res |-> "IndexError", indices |-> <<>>, multiple |-> TRUE]
        ELSE raw

(* FitsProvider._slice: a View is its index tuple and its single flag.     *)
_slice(indices, multi) == [mapping |-> indices, single |-> ~multi]

(* FitsProvider.__getitem__: [res, view] with view Nothing or Some(View).  *)
Provider_getitem(nds, slc) ==
    LET r == normalize_indices(slc, Len(nds))
    IN  IF r.res # "ok" THEN [res |-> r.res, view |-> Nothing]
        ELSE [res |-> "ok", view |-> Some(_slice(r.indices, r.multiple))]

(* Faulty variant: the new selector is resolved against the Container's positions. *)
Proxy_getitem_raw(v, slc) ==
    LET r == normalize_indices(slc, Len(v.mapping))
    IN  IF v.single THEN [res |-> "TypeError", view |-> Nothing]
        ELSE IF r.res # "ok" THEN [res |-> r.res, view |-> Nothing]
        ELSE [res |-> "ok", view |-> Some(_slice(r.indices, r.multiple))]

(* FitsProviderProxy.__getitem__; self._mapping[idx] is Python's tuple     *)
(* indexing.                                                               *)
Proxy_getitem(v, slc) ==
    LET len == Len(v.mapping)
        r == normalize_indices(slc, len)
    IN  IF v.single THEN [res |-> "TypeError", view |-> Nothing]
        ELSE IF r.res # "ok" THEN [res |-> r.res, view |-> Nothing]
        ELSE IF \E k \in 1..Len(r.indices) : PyIndex(r.indices[k], len) = -1
        THEN [res |-> "IndexError", view |-> Nothing]
        ELSE [res |-> "ok",
              view |-> Some(_slice(
                  [k \in 1..Len(r.indices) |->
                      At(v.mapping, PyIndex(r.indices[k], len))],
                  r.multiple))]

(* FitsProvider.__iter__ and FitsProviderProxy.__iter__: the Views yielded. *)
Provider_iter(nds) == [k \in 1..Len(nds) |-> _slice(<<k - 1>>, FALSE)]

(* Faulty variant: the Views yielded are numbered from one.                        *)
Proxy_iter_shift(v) ==
    IF v.single THEN <<v>>
    ELSE [k \in 1..Len(v.mapping) |-> _slice(<<v.mapping[k] + 1>>, FALSE)]

Proxy_iter(v) ==
    IF v.single THEN <<v>>
    ELSE [k \in 1..Len(v.mapping) |-> _slice(<<v.mapping[k]>>, FALSE)]

(* Faulty variant: an index past the end silently resolves to the last unit.       *)
_mapped_nddata_clamp(v, nds) ==
    [k \in 1..Len(v.mapping) |->
        IF v.mapping[k] >= Len(nds) /\ Len(nds) > 0 THEN Len(nds) - 1
        ELSE PyIndex(v.mapping[k], Len(nds))]

(* FitsProviderProxy._mapped_nddata(): the position each index of the View *)
(* resolves to in _nddata, -1 where the list lookup raises IndexError.     *)
_mapped_nddata(v, nds) ==
    [k \in 1..Len(v.mapping) |-> PyIndex(v.mapping[k], Len(nds))]

(* --------------------- assignment and arithmetic ---------------------- *)
Attributes == {"data", "uncertainty", "mask", "variance", "wcs"}

(* The attribute attr of an NDData object set to value (Nothing is None;   *)
(* an uncertainty is kept as its variance array).                          *)
SetField(obj, attr, value) ==
    IF attr = "data" THEN [obj EXCEPT !.data = value[1]]
    ELSE IF attr = "mask" THEN [obj EXCEPT !.mask = value]
    ELSE IF attr \in {"uncertainty", "variance"} THEN [obj EXCEPT !.unc = value]
    ELSE [obj EXCEPT !.wcs = value]

ReadField(obj, attr) ==
    IF attr = "data" THEN Some(obj.data)
    ELSE IF attr = "mask" THEN obj.mask
    ELSE IF attr \in {"uncertainty", "variance"} THEN obj.unc
    ELSE obj.wcs

(* Faulty variant: the setter works on a copy of the unit.                         *)
Proxy_setattr_copy(h, nds, v, attr, value) ==
    IF ~v.single THEN [res |-> "ValueError", heap |-> h]
    ELSE IF PyIndex(v.mapping[1], Len(nds)) = -1
    THEN [res |-> "IndexError", heap |-> h]
    ELSE IF attr = "data" /\ value = Nothing
    THEN [res |-> "AttributeError", heap |-> h]
    ELSE [res |-> "ok", heap |-> h]

(* The data, uncertainty, mask, variance and wcs setters of                *)
(* FitsProviderProxy: [res, heap].  A value without a shape (None) is      *)
(* refused for data.                                                       *)
Proxy_setattr(h, nds, v, attr, value) ==
    IF ~v.single THEN [res |-> "ValueError", heap |-> h]
    ELSE LET pos == PyIndex(v.mapping[1], Len(nds))
         IN  IF pos = -1 THEN [res |-> "IndexError", heap |-> h]
             ELSE IF attr = "data" /\ value = Nothing
             THEN [res |-> "AttributeError", heap |-> h]
             ELSE [res |-> "ok",
                   heap |-> [h EXCEPT ![At(nds, pos)] =
                                SetField(@, attr, value)]]

(* Assignment on the FitsProvider itself: the four setters it defines      *)
(* raise; any other lower-case name falls through __setattr__ to the       *)
(* default and becomes an instance attribute.  [res, attrs].               *)
Provider_setattr(at, attr, value) ==
    IF attr \in {"data", "uncertainty", "mask", "variance"}
    THEN [res |-> "ValueError", attrs |-> at]
    ELSE [res |-> "ok",
          attrs |-> [n \in DOMAIN at \cup {attr} |->
                        IF n = attr THEN value ELSE at[n]]]

(* The result of NDDataObject.add(nd, operand) for a scalar operand: a new *)
(* object with the same meta.                                              *)
NDAdd(obj, operand) == [obj EXCEPT !.data = obj.data + operand]

(* Faulty variant: the result is stored at the first position.                     *)
_set_nddata_first(nds, n, r) == [nds EXCEPT ![1] = r]

_set_nddata(nds, n, r) == [nds EXCEPT ![PyIndex(n, Len(nds)) + 1] = r]

(* _oper with a scalar operand over the given indices, in order: the       *)
(* outcome [res, heap, nddata]; an IndexError leaves the units replaced    *)
(* before it.                                                              *)
RECURSIVE _oper(_, _, _, _)
_oper(h, nds, operand, indices) ==
    IF indices = <<>> THEN [res |-> "ok", heap |-> h, nddata |-> nds]
    ELSE IF PyIndex(Head(indices), Len(nds)) = -1
    THEN [res |-> "IndexError", heap |-> h, nddata |-> nds]
    ELSE LET old == h[At(nds, PyIndex(Head(indices), Len(nds)))]
             h1 == Alloc(h, NDAdd(old, operand))
         IN  _oper(h1, _set_nddata(nds, Head(indices), NewRef(h)), operand,
                   Tail(indices))

(* NDDataObject.add(nd, other) for another NDData object raises            *)
(* ValueError unless the two arrays have the same shape; its result is a   *)
(* new object (handle_meta='first_found': with the meta of nd).            *)
Combinable(obj, other) == other.shape = obj.shape
NDAddND(obj, other) == [obj EXCEPT !.data = obj.data + other.data]

(* The loop of _oper over an AstroData operand [single, nddata]: for each  *)
(* n of indices, in order, self._nddata[n] is combined with operand.nddata *)
(* (single operand) or operand.nddata[n] and the result stored at n.  An   *)
(* exception ends the loop and leaves the units stored before it.          *)
RECURSIVE _oper_loop(_, _, _, _)
_oper_loop(h, nds, operand, indices) ==
    IF indices = <<>> THEN [res |-> "ok", heap |-> h, nddata |-> nds]
    ELSE LET n == Head(indices)
             pos == PyIndex(n, Len(nds))
             opos == PyIndex(n, Len(operand.nddata))
         IN  IF pos = -1 \/ (~operand.single /\ opos = -1)
             THEN [res |-> "IndexError", heap |-> h, nddata |-> nds]
             ELSE LET other == IF operand.single THEN operand.nddata[1]
                               ELSE At(operand.nddata, opos)
                      old == h[At(nds, pos)]
                  IN  IF ~Combinable(old, other)
                      THEN [res |-> "ValueError", heap |-> h, nddata |-> nds]
                      ELSE _oper_loop(Alloc(h, NDAddND(old, other)),
                                      _set_nddata(nds, n, NewRef(h)), operand,
                                      Tail(indices))

(* _oper with an AstroData operand: len(operand) is compared with the      *)
(* number of indices before the loop starts.                               *)
_oper_astrodata(h, nds, operand, indices) ==
    IF Len(operand.nddata) # Len(indices)
    THEN [res |-> "ValueError", heap |-> h, nddata |-> nds]
    ELSE _oper_loop(h, nds, operand, indices)

(* FitsProviderProxy.append(ext, name) on the View v.                      *)
Proxy_append(h, nds, at, v, ext, name) ==
    IF ~v.single \/ name = NONE
    THEN [res |-> "TypeError", heap |-> h, nddata |-> nds, attrs |-> at]
    ELSE IF _mapped_nddata(v, nds)[1] = -1
    THEN [res |-> "IndexError", heap |-> h, nddata |-> nds, attrs |-> at]
    ELSE append(h, nds, at, ext, name, At(nds, _mapped_nddata(v, nds)[1]))

(* FitsProviderProxy.__setattr__ for an upper-case attribute, which is     *)
(* settable and not an attribute of the proxy itself.                      *)
Proxy_setattr_upper(h, nds, at, v, attribute, value) ==
    IF ~v.single
    THEN [res |-> "TypeError", heap |-> h, nddata |-> nds, attrs |-> at]
    ELSE IF _mapped_nddata(v, nds)[1] = -1
    THEN [res |-> "IndexError", heap |-> h, nddata |-> nds, attrs |-> at]
    ELSE append(h, nds, at, value, attribute,
                At(nds, _mapped_nddata(v, nds)[1]))

(* ------------------------- header collection -------------------------- *)
(* header[key] on the header of an NDData object: Nothing stands for the   *)
(* KeyError of a keyword the header does not have.                         *)
HeaderItem(nd, key) ==
    IF key = "EXTNAME" /\ nd.hname # NONE THEN Some(nd.hname) ELSE Nothing

(* hdr(): the FitsHeaderCollection over the headers of the units.          *)
hdr(h, nds) == [k \in 1..Len(nds) |-> h[nds[k]]]

(* Faulty variant: only the first missing position is reported.            *)
FitsHeaderCollection_getitem_first(headers, key) ==
    LET Missing(n) == HeaderItem(headers[n + 1], key) = Nothing
        missing_at == SelectSeq([k \in 1..Len(headers) |-> k - 1], Missing)
        ret == [k \in 1..Len(headers) |->
                   IF Missing(k - 1) THEN NONE
                   ELSE HeaderItem(headers[k], key)[1]]
    IN  [res |-> IF missing_at = <<>> THEN "ok" ELSE "KeyError",
         values |-> ret,
         missing_at |-> IF missing_at = <<>> THEN <<>>
                        ELSE <<Head(missing_at)>>]

(* FitsHeaderCollection.__getitem__: [res, values, missing_at].  The       *)
(* values hold None (NONE) at the positions of missing_at, and both are    *)
(* carried by the KeyError.                                                *)
FitsHeaderCollection_getitem(headers, key) ==
    LET Missing(n) == HeaderItem(headers[n + 1], key) = Nothing
        missing_at == SelectSeq([k \in 1..Len(headers) |-> k - 1], Missing)
        ret == [k \in 1..Len(headers) |->
                   IF Missing(k - 1) THEN NONE
                   ELSE HeaderItem(headers[k], key)[1]]
    IN  [res |-> IF missing_at = <<>> THEN "ok" ELSE "KeyError",
         values |-> ret, missing_at |-> missing_at]

(* FitsHeaderCollection.get(key, default): the KeyError of __getitem__ is  *)
(* caught and its values returned with default at the missing positions.   *)
FitsHeaderCollection_get(headers, key, default) ==
    LET item == FitsHeaderCollection_getitem(headers, key)
        IsMissing(k) == \E j \in 1..Len(item.missing_at) :
                            item.missing_at[j] = k - 1
    IN  [res |-> "ok",
         values |-> [k \in 1..Len(headers) |->
                        IF IsMissing(k) THEN default ELSE item.values[k]],
         missing_at |-> <<>>]

(* An array of the crop specification is the rectangle it holds of the     *)
(* array it was cut from: the origin (oy, ox) and the shape (ny, nx).      *)
Array(ny, nx) == [kind |-> "array", oy |-> 0, ox |-> 0, ny |-> ny, nx |-> nx]
ShapeOf(a) == <<a.ny, a.nx>>

(* The indices lo:hi select of an axis of length n, for lo, hi >= 0: the   *)
(* first one and how many (a bound past the end is cut to the end).        *)
AxisSlice(lo, hi, n) ==
    [start |-> Min2(lo, n), len |-> Max2(Min2(hi, n) - Min2(lo, n), 0)]

(* a[y1:y2+1, x1:x2+1]                                                     *)
Getitem2(a, x1, y1, x2, y2) ==
    LET ys == AxisSlice(y1, y2 + 1, a.ny)
        xs == AxisSlice(x1, x2 + 1, a.nx)
    IN  [kind |-> "array", oy |-> a.oy + ys.start, ox |-> a.ox + xs.start,
         ny |-> ys.len, nx |-> xs.len]

(* _crop_nd on an NDData object.                                           *)
_crop_nd(nd, x1, y1, x2, y2) ==
    [nd EXCEPT !.data = Getitem2(@, x1, y1, x2, y2),
               !.shape = ShapeOf(Getitem2(nd.data, x1, y1, x2, y2)),
               !.unc = IF @ = Nothing THEN @
                       ELSE Some(Getitem2(@[1], x1, y1, x2, y2)),
               !.mask = IF @ = Nothing THEN @
                        ELSE Some(Getitem2(@[1], x1, y1, x2, y2))]

(* The entries of nd's other that have a shape and have the given one.     *)
SameShaped(nd, shape) ==
    {n \in DOMAIN nd.other :
        nd.other[n].kind = "array" /\ ShapeOf(nd.other[n]) = shape}

(* _crop_impl over the objects nds, in order: [res, heap].  An entry of    *)
(* other is an array (numpy.ndarray) or a Table.  A Table has no shape     *)
(* (AttributeError, passed over).  For an array of the shape of the data,  *)
(* _crop_nd is called on the array itself, whose data attribute is a       *)
(* buffer that does not take a pair of slices: the NotImplementedError is  *)
(* not caught and ends the crop, the unit itself already cropped.          *)
RECURSIVE _crop_impl(_, _, _, _, _, _)
_crop_impl(h, nds, x1, y1, x2, y2) ==
    IF nds = <<>> THEN [res |-> "ok", heap |-> h]
    ELSE LET r == Head(nds)
             orig_shape == ShapeOf(h[r].data)
             h1 == [h EXCEPT ![r] = _crop_nd(@, x1, y1, x2, y2)]
         IN  IF SameShaped(h[r], orig_shape) # {}
             THEN [res |-> "NotImplementedError", heap |-> h1]
             ELSE _crop_impl(h1, Tail(nds), x1, y1, x2, y2)

(* -------------------------- windowed operation ------------------------ *)
(* An array of the windowed specification, of one or two axes: its shape  *)
(* and its cells in row-major order, a cell being named by its indices     *)
(* (from 0 on every axis).  Empty is what a cell of np.empty holds until   *)
(* it is written: whatever the memory held, which no value of an input     *)
(* equals.                                                                 *)
Empty == 0
Size(shape) == IF Len(shape) = 1 THEN shape[1] ELSE shape[1] * shape[2]
Ravel(c, shape) ==
    IF Len(shape) = 1 THEN c[1] + 1 ELSE c[1] * shape[2] + c[2] + 1
Unravel(i, shape) ==
    IF Len(shape) = 1 THEN <<i - 1>>
    ELSE <<(i - 1) \div shape[2], (i - 1) % shape[2]>>
Indices(shape) == {Unravel(i, shape) : i \in 1..Size(shape)}
CellAt(a, c) == a.cells[Ravel(c, a.shape)]
np_empty(shape) ==
    [kind |-> "ndarray", shape |-> shape,
     cells |-> [i \in 1..Size(shape) |-> Empty]]

(* What a tuple of slices selects of an array of the given shape.          *)
Section(coords, shape) ==
    [k \in 1..Len(shape) |-> AxisSlice(coords[k][1], coords[k][2], shape[k])]
SectionShape(coords, shape) ==
    [k \in 1..Len(shape) |-> Section(coords, shape)[k].len]
InSection(c, sl) ==
    \A k \in 1..Len(sl) :
        c[k] >= sl[k].start /\ c[k] < sl[k].start + sl[k].len

(* a[section]                                                              *)
ndarray_getitem(a, coords) ==
    LET sl == Section(coords, a.shape)
        shp == [k \in 1..Len(sl) |-> sl[k].len]
    IN  [kind |-> "ndarray", shape |-> shp,
         cells |-> [i \in 1..Size(shp) |->
                       CellAt(a, [k \in 1..Len(shp) |->
                                     sl[k].start + Unravel(i, shp)[k]])]]

(* a[section] = v, for v of the shape of the section.                      *)
ndarray_setitem(a, coords, v) ==
    LET sl == Section(coords, a.shape)
    IN  [a EXCEPT !.cells =
            [i \in 1..Size(a.shape) |->
                IF InSection(Unravel(i, a.shape), sl)
                THEN CellAt(v, [k \in 1..Len(sl) |->
                                   Unravel(i, a.shape)[k] - sl[k].start])
                ELSE a.cells[i]]]

(* element.window[section]: the section of the data of an NDData object.   *)
window_getitem(nd, coords) ==
    [kind |-> "NDData", data |-> ndarray_getitem(nd.data, coords)]

(* NDData.set_section(section, input)                                      *)
set_section(nd, coords, input) ==
    [nd EXCEPT !.data = ndarray_setitem(@, coords, input.data)]

(* Faulty variant: the last, shorter tile of an axis is left out.          *)
Ticks_whole(axis, step) ==
    [k \in 1..(axis \div step) |->
        <<(k - 1) * step, (k - 1) * step + step>>]

(* range(0, axis, step) as the pairs (x, x + step), for step > 0.          *)
Ticks(axis, step) ==
    [k \in 1..((axis + step - 1) \div step) |->
        <<(k - 1) * step, (k - 1) * step + step>>]

(* itertools.product: the last list runs fastest.                          *)
RECURSIVE cart_product(_)
cart_product(lists) ==
    IF lists = <<>> THEN << <<>> >>
    ELSE LET first == Head(lists)
             rest == cart_product(Tail(lists))
         IN  [i \in 1..(Len(first) * Len(rest)) |->
                 <<first[((i - 1) \div Len(rest)) + 1]>>
                     \o rest[((i - 1) % Len(rest)) + 1]]

(* generate_boxes: [res, boxes].                                           *)
generate_boxes(shape, kernel) ==
    IF Len(shape) # Len(kernel)
    THEN [res |-> "AssertionError", boxes |-> <<>>]
    ELSE [res |-> "ok",
          boxes |-> cart_product([k \in 1..Len(shape) |->
                                     Ticks(shape[k], kernel[k])])]

(* The functions given to windowedOp.  func.fail is the number of the call *)
(* that raises (0: none does).  Each other call returns the window of the  *)
(* first input as its data; func.side names the side-cars it puts into     *)
(* meta['other'] of what it returns, and func.kind says whether they are   *)
(* NDData objects or plain arrays.  The side-car called n holds, at every  *)
(* cell of the window, the value of the data plus SideOffset[n].           *)
SideOffset == [REJMAP |-> 100, OBJMASK |-> 200]
(* The order in which func files them in meta['other'] of what it returns. *)
SideOrder == <<"REJMAP", "OBJMASK">>
SideArray(n, win) ==
    [kind |-> "ndarray", shape |-> win.data.shape,
     cells |-> [i \in 1..Len(win.data.cells) |->
                   win.data.cells[i] + SideOffset[n]]]
Call(func, windows) ==
    [kind |-> "NDData", data |-> windows[1].data,
     other |-> [n \in func.side |->
                   IF func.kind = "NDData"
                   THEN [kind |-> "NDData", data |-> SideArray(n, windows[1])]
                   ELSE SideArray(n, windows[1])]]

(* The items (name, coords) -> obj that one tile adds to meta['other'] of  *)
(* the result, in the order of the names.                                  *)
RECURSIVE TileItems(_, _, _)
TileItems(out, names, coords) ==
    IF names = {} THEN <<>>
    ELSE LET n == CHOOSE x \in names : TRUE
         IN  <<[name |-> n, coords |-> coords, obj |-> out.other[n]]>>
                 \o TileItems(out, names \ {n}, coords)

(* The loop over the boxes, from box i on: the result, its meta['other']   *)
(* by name (other) and its meta['other'] by (name, coords), in the order   *)
(* of insertion (tiled).                                                   *)
RECURSIVE windowedOp_loop(_, _, _, _, _)
windowedOp_loop(func, sequence, boxes, i, acc) ==
    IF i > Len(boxes) THEN acc
    ELSE IF func.fail = i THEN [acc EXCEPT !.res = "RuntimeError"]
    ELSE LET coords == boxes[i]
             out == Call(func, [k \in 1..Len(sequence) |->
                                   window_getitem(sequence[k], coords)])
             result == set_section(acc.result, coords, out)
         IN  windowedOp_loop(func, sequence, boxes, i + 1,
                 IF Len(boxes) > 1
                 THEN [res |-> "ok", result |-> result, other |-> acc.other,
                       tiled |-> acc.tiled
                                    \o TileItems(out, DOMAIN out.other, coords)]
                 ELSE [res |-> "ok", result |-> result, tiled |-> acc.tiled,
                       other |-> [n \in DOMAIN acc.other \cup DOMAIN out.other
                                     |-> IF n \in DOMAIN out.other
                                         THEN out.other[n] ELSE acc.other[n]]])

(* Faulty variant of the gathering below: the item stays under its         *)
(* (name, coords) key.                                                     *)
RECURSIVE windowedOp_gather_keep(_, _, _, _)
windowedOp_gather_keep(items, shape, other, left) ==
    IF items = <<>> THEN [res |-> "ok", other |-> other, tiled |-> left]
    ELSE LET it == Head(items)
             o1 == IF it.name \in DOMAIN other THEN other
                   ELSE SetItem(other, it.name,
                                [kind |-> "NDData", data |-> np_empty(shape)])
             o2 == [o1 EXCEPT ![it.name] = set_section(@, it.coords, it.obj)]
         IN  IF it.obj.kind # "NDData"
             THEN [res |-> "ValueError", other |-> other, tiled |-> left]
             ELSE windowedOp_gather_keep(Tail(items), shape, o2, left)

(* The gathering of the items of tiled into one array for each name:       *)
(* [res, other, tiled], left being the items not yet gathered.             *)
RECURSIVE windowedOp_gather(_, _, _, _)
windowedOp_gather(items, shape, other, left) ==
    IF items = <<>> THEN [res |-> "ok", other |-> other, tiled |-> left]
    ELSE LET it == Head(items)
             o1 == IF it.name \in DOMAIN other THEN other
                   ELSE SetItem(other, it.name,
                                [kind |-> "NDData", data |-> np_empty(shape)])
             o2 == [o1 EXCEPT ![it.name] = set_section(@, it.coords, it.obj)]
         IN  IF it.obj.kind # "NDData"
             THEN [res |-> "ValueError", other |-> other, tiled |-> left]
             ELSE windowedOp_gather(Tail(items), shape, o2, Tail(left))

(* other[name] = other[name].data: the array of an NDData object, and for  *)
(* a plain array the buffer of its cells.                                  *)
DataOf(obj) ==
    IF obj.kind = "NDData" THEN obj.data ELSE [obj EXCEPT !.kind = "buffer"]

(* result = NDDataObject(..., meta=sequence[0].meta, ...): the object      *)
(* built keeps the mapping it is given as its meta, so meta of the result  *)
(* and meta of the first input are one mapping, and what is assigned to    *)
(* result.meta['other'] and result.meta['other_header'] is what the first  *)
(* input has from then on.  nd is the first input, result the result as    *)
(* windowedOp leaves it.                                                   *)
SharedMeta(nd, result) ==
    [nd EXCEPT !.other = result.other,
               !.other_header = result.other_header,
               !.keys = result.keys]

(* windowedOp(func, sequence, kernel) called with the astropy logger as lg: *)
(* [res, result, tiled, boxes, logger], tiled being the items left under a *)
(* (name, coords) key in meta['other'] of the result.  conf.log_level is   *)
(* read and the level set to WARNING before generate_boxes is called; the  *)
(* loop over the boxes runs in a try whose finally sets the level to what  *)
(* was read; the gathering comes after it.                                 *)
windowedOp(func, sequence, kernel, lg) ==
    LET shape == sequence[1].data.shape
        result == [sequence[1] EXCEPT !.data = np_empty(shape),
                                      !.unc = Nothing, !.mask = Nothing,
                                      !.other = <<>>, !.other_header = <<>>,
                                      !.keys = <<>>]
        log_level == lg.conf
        gen == generate_boxes(shape, kernel)
        acc == windowedOp_loop(func, sequence, gen.boxes, 1,
                   [res |-> "ok", result |-> result, other |-> <<>>,
                    tiled |-> <<>>])
        got == IF Len(gen.boxes) > 1
               THEN windowedOp_gather(acc.tiled, shape, acc.other, acc.tiled)
               ELSE [res |-> "ok", other |-> acc.other, tiled |-> acc.tiled]
    IN  IF gen.res # "ok"
        THEN [res |-> gen.res, result |-> result, tiled |-> <<>>,
              boxes |-> <<>>, logger |-> [lg EXCEPT !.level = "WARNING"]]
        ELSE IF acc.res # "ok"
        THEN [res |-> acc.res, result |-> result, tiled |-> <<>>,
              boxes |-> gen.boxes, logger |-> [lg EXCEPT !.level = log_level]]
        ELSE IF got.res # "ok"
        THEN [res |-> got.res, result |-> result, tiled |-> <<>>,
              boxes |-> gen.boxes, logger |-> [lg EXCEPT !.level = log_level]]
        ELSE [res |-> "ok",
              result |-> [acc.result EXCEPT
                  !.other = [n \in DOMAIN got.other |-> DataOf(got.other[n])],
                  !.keys = KeysIn(SideOrder, DOMAIN got.other),
                  !.other_header = [n \in DOMAIN got.other |->
                                       [hname |-> n, hver |-> NoVer]]],
              tiled |-> got.tiled, boxes |-> gen.boxes,
              logger |-> [lg EXCEPT !.level = log_level]]

(* ------------------------------- loader ------------------------------- *)
(* An HDU of a file: its place in the file as it was opened (id, which     *)
(* tells two like HDUs apart), its type (kind: "primary", "image", "table" *)
(* for a BinTableHDU or "asciitable" for a TableHDU), EXTNAME and EXTVER (NONE and NoVer when the header has none), *)
(* whether it has data, what fitswcs_to_gwcs makes of its header (fwcs:    *)
(* "gwcs", "none" for None, or "TypeError") and whether the table holds a  *)
(* gWCS that asdf can read (parses).                                       *)
HDU(id, kind, hname, hver, fwcs, parses) ==
    [id |-> id, kind |-> kind, hname |-> hname, hver |-> hver,
     hasdata |-> kind # "primary", fwcs |-> fwcs, parses |-> parses]

(* The extension names in the order of Python's strings; SCI is not one of *)
(* them.                                                                   *)
NameOrder ==
    <<"CAT", "DQ", "MDF", "OBJMASK", "REFCAT", "TABLE1", "TABLE2", "VAR",
      "WCS">>
NameRank(name) ==
    IF name = default_extension THEN 0
    ELSE IF name = NONE THEN Len(NameOrder) + 1
    ELSE CHOOSE k \in 1..Len(NameOrder) : NameOrder[k] = name

(* fits_ext_comp_key: (version, name), the name as its rank in the order   *)
(* of the strings "SCI" < "z" + name < "zzzz".  Unnumbered stands for the  *)
(* 2**32-1 given to an HDU without EXTVER: the largest integer here, above *)
(* every EXTVER as that is.                                                *)
Unnumbered == 2147483647
fits_ext_comp_key(ext) ==
    IF ext.kind = "primary" THEN <<-1, -1>>
    ELSE <<IF ext.hver = NoVer THEN Unnumbered ELSE ext.hver,
           NameRank(ext.hname)>>

KeyLess(a, b) == a[1] < b[1] \/ (a[1] = b[1] /\ a[2] < b[2])

(* sorted(list, key=fits_ext_comp_key): equal keys keep their order.       *)
InsertLast(rest, x) ==
    LET n == Cardinality({k \in 1..Len(rest) :
                             ~KeyLess(fits_ext_comp_key(x),
                                      fits_ext_comp_key(rest[k]))})
    IN  SubSeq(rest, 1, n) \o <<x>> \o SubSeq(rest, n + 1, Len(rest))
RECURSIVE sorted(_)
sorted(list) ==
    IF list = <<>> THEN <<>>
    ELSE InsertLast(sorted(SubSeq(list, 1, Len(list) - 1)), list[Len(list)])

(* The first loop of _prepare_hdulist keeps the primary HDU and the HDUs   *)
(* that have both EXTNAME and EXTVER.                                      *)
Recognized(unit) ==
    (unit.hver # NoVer /\ unit.hname # NONE) \/ unit.kind = "primary"

(* The second loop of _prepare_hdulist, over the HDUs the first one left.  *)
RECURSIVE PrepareRest(_, _)
PrepareRest(units, highest_ver) ==
    IF units = <<>> THEN <<>>
    ELSE LET unit == Head(units)
         IN  IF unit.kind = "image"
             THEN <<[unit EXCEPT
                       !.hname = IF @ = NONE THEN default_extension ELSE @,
                       !.hver = IF @ = NoVer THEN highest_ver + 1 ELSE @]>>
                      \o PrepareRest(Tail(units), highest_ver + 1)
             ELSE <<unit>> \o PrepareRest(Tail(units), highest_ver)

(* _prepare_hdulist.  A file of one HDU that has data is a single image:   *)
(* it becomes a primary HDU without data and an image HDU SCI, 1 with the  *)
(* same header (id 0: the HDU is new).                                     *)
_prepare_hdulist(hdulist) ==
    IF Len(hdulist) > 1 \/ (Len(hdulist) = 1 /\ ~hdulist[1].hasdata)
    THEN LET known == SelectSeq(hdulist, Recognized)
             rest == SelectSeq(hdulist, LAMBDA u : ~Recognized(u))
             highest_ver ==
                 SetMax({0} \cup {known[k].hver : k \in
                            {j \in 1..Len(known) :
                                known[j].hver # NoVer
                                    /\ known[j].hname # NONE}})
         IN  sorted(known \o PrepareRest(rest, highest_ver))
    ELSE sorted(<<[hdulist[1] EXCEPT !.hasdata = FALSE],
                  [hdulist[1] EXCEPT !.id = 0, !.kind = "image",
                                     !.hname = default_extension,
                                     !.hver = 1]>>)

(* asdftablehdu_to_wcs: the transform read from the table, or None.        *)
asdftablehdu_to_wcs(hdu) ==
    IF hdu.kind \in {"table", "asciitable"} /\ hdu.parses
    THEN Some([from |-> "table", id |-> hdu.id])
    ELSE Nothing

(* adwcs.fitswcs_to_gwcs on the header of an HDU: [res, wcs].              *)
fitswcs_to_gwcs(hdu, from) ==
    IF hdu.fwcs = "TypeError" THEN [res |-> "TypeError", wcs |-> Nothing]
    ELSE [res |-> "ok",
          wcs |-> IF hdu.fwcs = "gwcs"
                  THEN Some([from |-> from, id |-> hdu.id]) ELSE Nothing]

skip_names == {default_extension, "REFCAT", "MDF"}

(* associated_extensions(ver), read to its end: [res, units].  An HDU of   *)
(* that version without EXTNAME is a KeyError.                             *)
associated_extensions(hdulist, ver) ==
    IF \E k \in 1..Len(hdulist) :
           hdulist[k].hver = ver /\ hdulist[k].hname = NONE
    THEN [res |-> "KeyError", units |-> <<>>]
    ELSE [res |-> "ok",
          units |-> SelectSeq(hdulist, LAMBDA u :
                        u.hver = ver /\ u.hname \notin skip_names)]

(* The last of the units of that name, as parts[...] ends up, or Nothing.  *)
Part(units, name) ==
    LET named == SelectSeq(units, LAMBDA u : u.hname = name)
    IN  IF named = <<>> THEN Nothing ELSE Some(named[Len(named)])

(* What an HDU holds: its data as read (eager), as a FitsLazyLoadable      *)
(* (lazy), or its table.                                                   *)
DataIn(hdu) == [kind |-> "array", id |-> hdu.id]
FitsLazyLoadable(hdu) == [kind |-> "lazy", id |-> hdu.id]
TableIn(hdu) == [kind |-> "table", hname |-> hdu.hname, id |-> hdu.id]

(* The state of a load, st: [res, heap, nddata, attrs, seen, dropped, nd]  *)
(* with seen the ids of the HDUs used, dropped the ids of those left out   *)
(* and nd the unit built last; Went takes the outcome of an append.        *)
Went(st, out) ==
    [st EXCEPT !.res = out.res, !.heap = out.heap, !.nddata = out.nddata]
WentTable(st, out) ==
    [st EXCEPT !.res = out.res, !.heap = out.heap, !.nddata = out.nddata,
               !.attrs = out.attrs]

(* provider.append(other, name=other.header['EXTNAME'], add_to=nd) for the *)
(* units of parts['other'], in order.  _process_table takes a BinTableHDU  *)
(* or a Table: for a TableHDU it raises ValueError.                        *)
RECURSIVE LoadOthers(_, _)
LoadOthers(st, others) ==
    IF others = <<>> \/ st.res # "ok" THEN st
    ELSE LET o == Head(others)
         IN  LoadOthers(
                 IF o.kind = "table"
                 THEN WentTable(st, _append_table(st.heap, st.nddata,
                          st.attrs, TableIn(o), o.hname, Nothing, st.nd))
                 ELSE IF o.kind = "asciitable"
                 THEN [st EXCEPT !.res = "ValueError"]
                 ELSE Went(st, _append_imagehdu(st.heap, st.nddata,
                          [hname |-> o.hname, hver |-> o.hver,
                           data |-> DataIn(o)], o.hname, st.nd, TRUE)),
                 Tail(others))

(* One turn of the loop of load over sci_units, path by path.              *)
LoadUnitLazy(st, hdulist, unit, parts) ==
    LET w0 == IF parts.wcs = Nothing THEN Nothing
              ELSE asdftablehdu_to_wcs(parts.wcs[1])
        own == fitswcs_to_gwcs(unit, "header")
        phu == fitswcs_to_gwcs(hdulist[1], "phu")
        res == IF w0 # Nothing THEN "ok"
               ELSE IF own.res # "ok" THEN own.res
               ELSE IF own.wcs # Nothing THEN "ok"
               ELSE phu.res
        wcs == IF w0 # Nothing THEN w0
               ELSE IF own.wcs # Nothing THEN own.wcs
               ELSE phu.wcs
        nd == [NewND(unit.hname, unit.hver, FitsLazyLoadable(unit),
                     IF parts.mask = Nothing THEN Nothing
                     ELSE Some(FitsLazyLoadable(parts.mask[1])),
                     IF parts.uncertainty = Nothing THEN Nothing
                     ELSE Some(FitsLazyLoadable(parts.uncertainty[1])))
                  EXCEPT !.wcs = wcs]
    IN  IF res # "ok" THEN [st EXCEPT !.res = res]
        ELSE Went([st EXCEPT !.nd = NewRef(st.heap)],
                  _append_raw_nddata(Alloc(st.heap, nd), st.nddata,
                                     NewRef(st.heap), default_extension,
                                     Nothing, 0, FALSE))

(* The eager path once the data HDU is appended as the unit st.nd.         *)
LoadPartsEager(st, unit, parts) ==
    LET h1 == IF parts.mask = Nothing THEN st.heap
              ELSE _append_imagehdu(st.heap, st.nddata,
                       [hname |-> "DQ", hver |-> unit.hver,
                        data |-> DataIn(parts.mask[1])], "DQ", st.nd,
                       TRUE).heap
        h2 == IF parts.uncertainty = Nothing THEN h1
              ELSE _append_imagehdu(h1, st.nddata,
                       [hname |-> "VAR", hver |-> unit.hver,
                        data |-> DataIn(parts.uncertainty[1])], "VAR", st.nd,
                       TRUE).heap
        own == fitswcs_to_gwcs(unit, "header")
        wcs == IF parts.wcs # Nothing THEN asdftablehdu_to_wcs(parts.wcs[1])
               ELSE IF own.res = "ok" THEN own.wcs
               ELSE Nothing
    IN  IF st.res # "ok" THEN st
        ELSE [st EXCEPT !.heap = [h2 EXCEPT ![st.nd].wcs = wcs]]

LoadUnitEager(st, hdulist, unit, parts) ==
    LoadPartsEager(
        Went([st EXCEPT !.nd = NewRef(st.heap)],
             _append_imagehdu(st.heap, st.nddata,
                 [hname |-> unit.hname, hver |-> unit.hver,
                  data |-> DataIn(unit)], default_extension, 0, FALSE)),
        unit, parts)

(* One turn of the loop over sci_units, assoc being what                   *)
(* associated_extensions gives for the version of the unit.                *)
LoadUnit(st, hdulist, unit, memmap, assoc) ==
    LET others == SelectSeq(assoc.units, LAMBDA u :
                      u.hname \notin {"DQ", "VAR", "WCS"})
        parts == [mask |-> Part(assoc.units, "DQ"),
                  uncertainty |-> Part(assoc.units, "VAR"),
                  wcs |-> Part(assoc.units, "WCS")]
        st0 == [st EXCEPT !.seen = @ \cup {unit.id}
                              \cup {assoc.units[k].id :
                                       k \in 1..Len(assoc.units)}]
    IN  IF assoc.res # "ok" THEN [st EXCEPT !.res = assoc.res]
        ELSE LoadOthers(IF memmap
                        THEN LoadUnitLazy(st0, hdulist, unit, parts)
                        ELSE LoadUnitEager(st0, hdulist, unit, parts),
                        others)

(* The loop of load over sci_units.                                        *)
RECURSIVE LoadUnits(_, _, _, _)
LoadUnits(st, hdulist, sci_units, memmap) ==
    IF sci_units = <<>> \/ st.res # "ok" THEN st
    ELSE LoadUnits(LoadUnit(st, hdulist, Head(sci_units), memmap,
                       associated_extensions(hdulist, Head(sci_units).hver)),
                   hdulist, Tail(sci_units), memmap)

(* One turn of the last loop of load, for an HDU not seen: a ValueError of *)
(* append is caught and the HDU left out.                                  *)
LoadStray(st, other, out) ==
    IF out.res = "ValueError"
    THEN [st EXCEPT !.dropped = Append(@, other.id)]
    ELSE [st EXCEPT !.res = out.res, !.heap = out.heap,
                    !.nddata = out.nddata, !.attrs = out.attrs]

RECURSIVE LoadStrays(_, _)
LoadStrays(st, units) ==
    IF units = <<>> \/ st.res # "ok" THEN st
    ELSE LET other == Head(units)
         IN  IF other.id \in st.seen THEN LoadStrays(st, Tail(units))
             ELSE LoadStrays(
                 LoadStray(st, other,
                     IF other.kind = "table"
                     THEN _append_table(st.heap, st.nddata, st.attrs,
                              TableIn(other), other.hname, Nothing, 0)
                     ELSE IF other.kind = "asciitable"
                     THEN [res |-> "ValueError", heap |-> st.heap,
                           nddata |-> st.nddata, attrs |-> st.attrs]
                     ELSE [attrs |-> st.attrs] @@
                          _append_imagehdu(st.heap, st.nddata,
                              [hname |-> other.hname, hver |-> other.hver,
                               data |-> DataIn(other)], other.hname, 0,
                              FALSE)),
                 Tail(units))

(* load once the file is prepared.                                         *)
LoadPrepared(hdulist, memmap) ==
    LoadStrays(
        LoadUnits([res |-> "ok", heap |-> <<>>, nddata |-> <<>>,
                   attrs |-> <<>>, seen |-> {hdulist[1].id},
                   dropped |-> <<>>, nd |-> 0],
                  hdulist,
                  SelectSeq(Tail(hdulist), LAMBDA u :
                      u.hname = default_extension),
                  memmap),
        hdulist)

(* FitsLoader.load of the HDUs of a file, opened with memory mapping       *)
(* (memmap, a path was given) or held in memory: the state the load ends   *)
(* in, and hdulist as _prepare_hdulist made it.                            *)
load(source, memmap) ==
    [st |-> LoadPrepared(_prepare_hdulist(source), memmap),
     hdulist |-> _prepare_hdulist(source)]

(* ----------------------------- serializer ---------------------------- *)

(* adwcs.gwcs_to_fits on the transform of a unit: the FITS keywords stand  *)
(* for it exactly, or only approximately ('APPROXIMATE' in FITS-WCS).  A   *)
(* transform read from a WCS table is one the keywords only approximate    *)
(* (that is why the table was written); one derived from a header is given *)
(* back by its keywords.                                                   *)
gwcs_to_fits(wcs) ==
    IF wcs.from = "table" THEN "APPROXIMATE" ELSE "exact"

(* An HDU that to_hdulist makes, for the unit at position unit (0: for the *)
(* Container) in the part role; its place in the list is given at the end. *)
NewHDU(kind, hname, hver, fwcs, unit, role) ==
    [HDU(0, kind, hname, hver, fwcs, kind = "asciitable")
        EXCEPT !.hasdata = kind # "primary"]
        @@ [of |-> [unit |-> unit, role |-> role]]

(* The HDU written for the entry name of meta['other'] of ext, the unit at *)
(* position j whose header holds fwcs: a Table with its own header, an     *)
(* array with the header filed for it or else the header of the unit, an   *)
(* NDData object with the header of the unit and no name given.            *)
OtherHDU(ext, j, fwcs, name) ==
    LET other == ext.other[name]
    IN  IF other.kind = "table"
        THEN NewHDU("table", other.hname,
                    IF name \in DOMAIN ext.other_header
                    THEN ext.other_header[name].hver ELSE NoVer,
                    "none", j, name)
        ELSE IF other.kind = "NDData"
        THEN NewHDU("image", ext.hname, ext.hver, fwcs, j, name)
        ELSE NewHDU("image", name,
                    IF name \in DOMAIN ext.other_header
                    THEN ext.other_header[name].hver ELSE ext.hver,
                    fwcs, j, name)

(* The turn of the loop of to_hdulist for the unit at position j.  When    *)
(* the keywords of gwcs_to_fits stand for the transform exactly no WCS     *)
(* table is written; the keywords go into the header of the unit, which    *)
(* holds no other WCS keywords.                                            *)
UnitHDUs(h, nds, j) ==
    LET ext == h[nds[j]]
        fwcs == IF ext.wcs # Nothing THEN "gwcs" ELSE "none"
        wcs == IF ext.wcs # Nothing /\ gwcs_to_fits(ext.wcs[1]) = "exact"
               THEN Nothing ELSE ext.wcs
    IN  <<NewHDU("image", "SCI", ext.hver, fwcs, j, "data")>>
        \o (IF ext.unc # Nothing
            THEN <<NewHDU("image", "VAR", ext.hver, fwcs, j, "uncertainty")>>
            ELSE <<>>)
        \o (IF ext.mask # Nothing
            THEN <<NewHDU("image", "DQ", ext.hver, fwcs, j, "mask")>>
            ELSE <<>>)
        \o (IF wcs # Nothing
            THEN <<NewHDU("asciitable", "WCS", ext.ver, "none", j, "wcs")>>
            ELSE <<>>)
        \o [i \in 1..Len(ext.keys) |-> OtherHDU(ext, j, fwcs, ext.keys[i])]

RECURSIVE AllUnitHDUs(_, _, _)
AllUnitHDUs(h, nds, j) ==
    IF j > Len(nds) THEN <<>>
    ELSE UnitHDUs(h, nds, j) \o AllUnitHDUs(h, nds, j + 1)

(* The names that are filed here, in the order of Python's strings, and    *)
(* sorted(names).                                                          *)
Alphabet ==
    <<"CAT", "DQ", "MDF", "OBJMASK", "REFCAT", "SCI", "TABLE1", "TABLE2",
      "VAR", "WCS">>
sorted_names(names) == KeysIn(Alphabet, names)

(* for name, table in sorted(self._tables.items()):                        *)
(*     table_to_bintablehdu(table, extname=name)                           *)
TableHDUs(at) ==
    LET names == sorted_names(DOMAIN at)
    IN  [i \in 1..Len(names) |->
            NewHDU("table", names[i], NoVer, "none", 0, names[i])]

(* to_hdulist: the list of HDUs, each with its place in it as id.          *)
to_hdulist(h, nds, at) ==
    LET hlst == <<NewHDU("primary", NONE, NoVer, "none", 0, "phu")>>
                    \o AllUnitHDUs(h, nds, 1) \o TableHDUs(at)
    IN  [k \in 1..Len(hlst) |-> [hlst[k] EXCEPT !.id = k]]

(* --------------------------- FitsLazyLoadable ------------------------- *)
(* The HDU behind a FitsLazyLoadable: [hname, _orig_bitpix, _orig_bscale,  *)
(* _orig_bzero, _uint, raw], raw being the stored integers as they are     *)
(* read with do_not_scale_image_data (a sequence: one axis).  An array is  *)
(* [dtype, cells].                                                         *)

(* fits.BITPIX2DTYPE for the integer arrays.                               *)
BITPIX2DTYPE(bitpix) ==
    IF bitpix = 8 THEN "uint8"
    ELSE IF bitpix = 16 THEN "int16"
    ELSE IF bitpix = 32 THEN "int32"
    ELSE "int64"

(* _dtype_for_bitpix of astropy, "the dtype if the data needs to be        *)
(* converted to unsigned int or scaled to float".                          *)
_dtype_for_bitpix(obj) ==
    IF obj._uint /\ obj._orig_bscale = 1 /\ obj._orig_bitpix = 8
          /\ obj._orig_bzero = -128
    THEN "int8"
    ELSE IF obj._uint /\ obj._orig_bscale = 1 /\ obj._orig_bitpix = 16
          /\ obj._orig_bzero = 32768
    THEN "uint16"
    ELSE IF obj._orig_bitpix > 16 THEN "float64"
    ELSE "float32"

(* FitsLazyLoadable.dtype                                                  *)
dtype(obj) ==
    IF obj.hname = "DQ"
          \/ (obj._uint /\ obj._orig_bscale = 1 /\ obj._orig_bitpix = 8)
    THEN "uint16"
    ELSE IF obj._orig_bscale = 1 /\ obj._orig_bzero = 0
    THEN BITPIX2DTYPE(obj._orig_bitpix)
    ELSE _dtype_for_bitpix(obj)

(* The value x as an element of an array of the type dt: integers keep the *)
(* low bits, the floats hold the integers met here as they are.            *)
Wrap(x, bits, signed) ==
    LET m == x % (2 ^ bits)
    IN  IF signed /\ m >= 2 ^ (bits - 1) THEN m - 2 ^ bits ELSE m
CastTo(x, dt) ==
    IF dt = "uint8" THEN Wrap(x, 8, FALSE)
    ELSE IF dt = "int8" THEN Wrap(x, 8, TRUE)
    ELSE IF dt = "uint16" THEN Wrap(x, 16, FALSE)
    ELSE IF dt = "int16" THEN Wrap(x, 16, TRUE)
    ELSE x
astype(array, dt) ==
    [dtype |-> dt,
     cells |-> [i \in 1..Len(array.cells) |-> CastTo(array.cells[i], dt)]]

(* FitsLazyLoadable._scale; bscale * data + bzero is worked out in a type  *)
(* wide enough for it.                                                     *)
_scale(obj, data) ==
    IF obj._orig_bscale = 1 /\ obj._orig_bzero = 0 THEN data
    ELSE astype([dtype |-> "int64",
                 cells |-> [i \in 1..Len(data.cells) |->
                               obj._orig_bscale * data.cells[i]
                                   + obj._orig_bzero]],
                dtype(obj))

(* self._obj.data and self._obj.section[sl] for sl = slice(start, stop).   *)
RawData(obj) ==
    [dtype |-> BITPIX2DTYPE(obj._orig_bitpix), cells |-> obj.raw]
RawSection(obj, sl) ==
    [dtype |-> BITPIX2DTYPE(obj._orig_bitpix),
     cells |-> SubSeq(obj.raw, sl.start + 1, sl.stop)]

(* FitsLazyLoadable.__getitem__                                            *)
FitsLazyLoadable_getitem(obj, sl) == _scale(obj, RawSection(obj, sl))

(* FitsLazyLoadable.data: res = np.empty(shape, dtype=self.dtype) and      *)
(* res[:] = ..., which stores every value as one of the type of res.       *)
FitsLazyLoadable_data(obj) == astype(_scale(obj, RawData(obj)), dtype(obj))

(* -------------------------- Gemini primitives ------------------------- *)
(* An AstroData object as the primitives see it: the timestamp keys of its *)
(* PHU with the time written under each (phu), its filename as the suffix  *)
(* it has (filename), its tags, whether it has an MDF, BUNIT, the keyword  *)
(* under which the headers give the reference system (radesys), whether    *)
(* its pointing is self-consistent and the transform of its units (wcs).   *)

timestamp_keys ==
    [addMDF |-> "ADDMDF", standardizeObservatoryHeaders |-> "SDZHDRSG",
     standardizeStructure |-> "SDZSTRUC", standardizeWCS |-> "SDZWCS"]

(* gt.mark_history writes the time under the keyword in the PHU;           *)
(* ad.update_filename(suffix=suffix, strip=True) gives the original name   *)
(* with the suffix.                                                        *)
mark_history(ad, keyword, now) ==
    [ad EXCEPT !.phu = SetItem(@, keyword, now)]
update_filename(ad, suffix) == [ad EXCEPT !.filename = suffix]

(* The turn of the loop of addMDF for ad and the MDF found for it (NONE:   *)
(* none).                                                                  *)
addMDF(ad, suffix, mdf, now) ==
    IF timestamp_keys.addMDF \in DOMAIN ad.phu THEN ad
    ELSE IF ad.MDF THEN ad
    ELSE IF mdf = NONE THEN ad
    ELSE update_filename(
             mark_history([ad EXCEPT !.MDF = TRUE], timestamp_keys.addMDF,
                          now),
             suffix)

standardizeObservatoryHeaders(ad, suffix, now) ==
    IF timestamp_keys.standardizeObservatoryHeaders \in DOMAIN ad.phu THEN ad
    ELSE update_filename(
             mark_history([ad EXCEPT !.BUNIT = "adu",
                                     !.radesys = IF @ = "RADECSYS"
                                                 THEN "RADESYS" ELSE @],
                          timestamp_keys.standardizeObservatoryHeaders, now),
             suffix)

(* The suffix that addMDF has when standardizeStructure calls it.          *)
addMDF_suffix == "_mdfAdded"
standardizeStructure(ad, suffix, attach_mdf, mdf, now) ==
    IF timestamp_keys.standardizeStructure \in DOMAIN ad.phu THEN ad
    ELSE update_filename(
             mark_history(
                 IF attach_mdf /\ ad.tags \cap {"LS", "MOS", "IFU", "XD"} # {}
                 THEN addMDF(ad, addMDF_suffix, mdf, now) ELSE ad,
                 timestamp_keys.standardizeStructure, now),
             suffix)

(* standardizeWCS on a list of the one input ad: [res, ad].  A pointing    *)
(* that is not self-consistent cannot be fixed for want of a base          *)
(* pointing; with 'bootstrap' a self-consistent one is the base from which *)
(* the transform of ad itself is built anew.                               *)
standardizeWCS(ad, suffix, bad_wcs, now) ==
    LET skipped == ad.tags \cap {"ARC", "BIAS", "DARK", "FLAT"} # {}
        needs_fixing == ~ad.consistent
        fixed == IF ~skipped /\ ~needs_fixing /\ bad_wcs = "bootstrap"
                 THEN [ad EXCEPT !.wcs = "rebuilt"] ELSE ad
    IN  IF bad_wcs = "ignore" THEN [res |-> "ok", ad |-> ad]
        ELSE IF ~skipped /\ needs_fixing /\ bad_wcs = "exit"
        THEN [res |-> "ValueError", ad |-> ad]
        ELSE [res |-> "ok",
              ad |-> update_filename(
                         mark_history(fixed, timestamp_keys.standardizeWCS,
                                      now),
                         suffix)]

(* --------------------------- path and filename ------------------------ *)
(* A path is the sequence of its components, "/" first when it is          *)
(* absolute; an attribute holds Some(path) or Nothing for None.  The       *)
(* functions of os.path on such sequences; cwd is the working directory    *)
(* abspath starts from.                                                    *)
cwd == <<"/", "cwd">>
isabs(value) == value # <<>> /\ value[1] = "/"
basename(value) ==
    IF value = <<>> \/ value = <<"/">> THEN <<>>
    ELSE <<value[Len(value)]>>
dirname(value) ==
    IF value = <<>> \/ value = <<"/">> THEN value
    ELSE SubSeq(value, 1, Len(value) - 1)
join(a, b) == IF isabs(b) THEN b ELSE a \o b
abspath(value) == join(cwd, value)

(* The setter of FitsProvider.path on the attributes at = [_path,          *)
(* _orig_filename].                                                        *)
path_setter(at, value) ==
    [at EXCEPT !._orig_filename =
                   IF at._path = Nothing /\ value # Nothing
                   THEN Some(basename(value[1]))
                   ELSE @,
               !._path = value]

(* The setter of FitsProvider.filename: [res, attrs].                      *)
filename_setter(at, value) ==
    IF isabs(value) THEN [res |-> "ValueError", attrs |-> at]
    ELSE IF at._path = Nothing
    THEN [res |-> "ok", attrs |-> path_setter(at, Some(abspath(value)))]
    ELSE [res |-> "ok",
          attrs |-> path_setter(at,
                                Some(join(dirname(at._path[1]), value)))]

(* FitsProviderProxy.__setattr__ for path and filename: both are settable  *)
(* for the provider and no attribute of the View, so the assignment ends   *)
(* in the AttributeError of the View.                                      *)
Proxy_setattr_path(at, attribute, value) ==
    [res |-> "AttributeError", attrs |-> at]

(* ------------------------- registry of tables ------------------------- *)
(* The Container's tables in full: the instance attributes set for them    *)
(* (dict), the registry _tables and the set _exposed, as a record          *)
(* [dict, _tables, _exposed].  A table is [kind, hname, id], id telling    *)
(* one Table object from another.                                          *)
Registry0 == [dict |-> <<>>, _tables |-> <<>>, _exposed |-> {}]

(* _append_table without a target: [res, attrs, hname].                    *)
_append_table_top(at, new_table, name) ==
    LET tb == _process_table(new_table, name, Nothing)
                  @@ [id |-> new_table.id]
        hname == IF tb.hname = NONE
                 THEN FirstTableName(DOMAIN at._tables, 1)
                 ELSE tb.hname
    IN  [res |-> "ok", hname |-> hname,
         attrs |-> [dict |-> SetItem(at.dict, hname, tb),
                    _tables |-> SetItem(at._tables, hname, tb),
                    _exposed |-> at._exposed \cup {hname}]]

(* The mapping d without the key k.                                        *)
DelItem_(d, k) == [n \in DOMAIN d \ {k} |-> d[n]]

isupper(attribute) == attribute \notin {"data", "path", "filename", "wcs"}

(* FitsProvider.__delattr__: [res, attrs].  The two del statements run in  *)
(* order, and the KeyError of either becomes an AttributeError.            *)
Provider_delattr(at, attribute) ==
    IF ~isupper(attribute) THEN [res |-> "ValueError", attrs |-> at]
    ELSE IF attribute \notin DOMAIN at._tables
    THEN [res |-> "AttributeError", attrs |-> at]
    ELSE IF attribute \notin DOMAIN at.dict
    THEN [res |-> "AttributeError",
          attrs |-> [at EXCEPT !._tables = DelItem_(@, attribute)]]
    ELSE [res |-> "ok",
          attrs |-> [at EXCEPT !._tables = DelItem_(@, attribute),
                               !.dict = DelItem_(@, attribute)]]

(* The end of _oper for an AstroData operand: the tables of the operand    *)
(* whose names the registry does not have are put into _tables.            *)
_oper_tables(at, op_table) ==
    [at EXCEPT !._tables =
        [n \in DOMAIN at._tables \cup DOMAIN op_table |->
            IF n \in DOMAIN at._tables THEN at._tables[n] ELSE op_table[n]]]

(* _oper for an AstroData operand [single, nddata, tables], whole:         *)
(* [res, heap, nddata, attrs].  An exception of the loop leaves the        *)
(* registry as it is.                                                      *)
_oper_whole(h, nds, at, operand, indices) ==
    LET out == _oper_astrodata(h, nds, operand, indices)
    IN  [res |-> out.res, heap |-> out.heap, nddata |-> out.nddata,
         attrs |-> IF out.res = "ok" THEN _oper_tables(at, operand.tables)
                   ELSE at]

(* FitsProviderProxy.__delitem__                                           *)
Proxy_delitem(nds, idx) == [res |-> "TypeError", nddata |-> nds]

(* ----------------------------- extver_map ----------------------------- *)
(* _extver_impl(nds): the dict {nd._meta['ver']: n for (n, nd) in          *)
(* enumerate(nds)}; of two units with one version the later one stays.     *)
_extver_impl(h, nds) ==
    [ver \in {h[nds[k]].ver : k \in 1..Len(nds)} |->
        CHOOSE n \in 0..(Len(nds) - 1) :
            /\ h[nds[n + 1]].ver = ver
            /\ \A m \in (n + 1)..(Len(nds) - 1) : h[nds[m + 1]].ver # ver]

(* FitsProvider.extver_map(): [res, out].                                  *)
Provider_extver_map(h, nds) == [res |-> "ok", out |-> _extver_impl(h, nds)]

(* FitsProviderProxy.extver_map() on the View v: [res, out].               *)
Proxy_extver_map(h, nds, v) ==
    IF v.single THEN [res |-> "ValueError", out |-> <<>>]
    ELSE IF \E k \in 1..Len(v.mapping) : _mapped_nddata(v, nds)[k] = -1
    THEN [res |-> "IndexError", out |-> <<>>]
    ELSE [res |-> "ok",
          out |-> _extver_impl(h, [k \in 1..Len(v.mapping) |->
                                      At(nds, _mapped_nddata(v, nds)[k])])]

(* ----------------------- arithmetic of two units ---------------------- *)
(* np.bitwise_or and np.bitwise_and on two non-negative integers, and on   *)
(* two masks (sequences of integers, one for each pixel).                  *)
RECURSIVE bitwise_or(_, _)
bitwise_or(a, b) ==
    IF a = 0 THEN b
    ELSE IF b = 0 THEN a
    ELSE Max2(a % 2, b % 2) + 2 * bitwise_or(a \div 2, b \div 2)
RECURSIVE bitwise_and(_, _)
bitwise_and(a, b) ==
    IF a = 0 \/ b = 0 THEN 0
    ELSE Min2(a % 2, b % 2) + 2 * bitwise_and(a \div 2, b \div 2)
MaskOr(x, y) == [p \in 1..Len(x) |-> bitwise_or(x[p], y[p])]
MaskAnd(x, y) == [p \in 1..Len(x) |-> bitwise_and(x[p], y[p])]

(* The mask of the result of NDData arithmetic for handle_mask: that of    *)
(* the operand that has one when the other has none, else handle_mask of   *)
(* the two.                                                                *)
ArithMask(handle_mask, m, o) ==
    IF m = Nothing THEN o
    ELSE IF o = Nothing THEN m
    ELSE IF handle_mask = "bitwise_or" THEN Some(MaskOr(m[1], o[1]))
    ELSE Some(MaskAnd(m[1], o[1]))

(* The data of the result for the four functions; a division is of values  *)
(* that divide exactly.                                                    *)
ArithData(fn, a, b) ==
    IF fn = "add" THEN a + b
    ELSE IF fn = "subtract" THEN a - b
    ELSE IF fn = "multiply" THEN a * b
    ELSE a \div b

(* fn(nd, other, handle_mask=..., handle_meta=...) of NDDataObject for     *)
(* fn one of add, subtract, multiply and divide: a new object; with        *)
(* 'first_found' its meta is that of nd, which is never empty, otherwise   *)
(* it has none of nd's.                                                    *)
NDArith(fn, handle_mask, handle_meta, obj, other) ==
    LET r == [obj EXCEPT !.data = ArithData(fn, obj.data, other.data),
                         !.mask = ArithMask(handle_mask, obj.mask, other.mask)]
    IN  IF handle_meta = "first_found" THEN r
        ELSE [r EXCEPT !.hname = other.hname, !.hver = other.ver,
                       !.ver = other.ver]

(* The loop of _oper for the operator given and an AstroData operand.      *)
RECURSIVE _oper_fn(_, _, _, _, _, _, _)
_oper_fn(h, nds, fn, handle_mask, handle_meta, operand, indices) ==
    IF indices = <<>> THEN [res |-> "ok", heap |-> h, nddata |-> nds]
    ELSE LET n == Head(indices)
             pos == PyIndex(n, Len(nds))
             opos == PyIndex(n, Len(operand.nddata))
         IN  IF pos = -1 \/ (~operand.single /\ opos = -1)
             THEN [res |-> "IndexError", heap |-> h, nddata |-> nds]
             ELSE LET other == IF operand.single THEN operand.nddata[1]
                               ELSE At(operand.nddata, opos)
                      old == h[At(nds, pos)]
                  IN  IF ~Combinable(old, other)
                      THEN [res |-> "ValueError", heap |-> h, nddata |-> nds]
                      ELSE _oper_fn(Alloc(h, NDArith(fn, handle_mask,
                                                     handle_meta, old, other)),
                                    _set_nddata(nds, n, NewRef(h)), fn,
                                    handle_mask, handle_meta, operand,
                                    Tail(indices))

(* Faulty variant: the masks are combined by bitwise AND.                  *)
_standard_nddata_op_and(h, nds, fn, operand, indices) ==
    IF Len(operand.nddata) # Len(indices)
    THEN [res |-> "ValueError", heap |-> h, nddata |-> nds]
    ELSE _oper_fn(h, nds, fn, "bitwise_and", "first_found", operand, indices)

(* _standard_nddata_op(fn, operand, indices) for an AstroData operand:     *)
(* _oper with partial(fn, handle_mask=np.bitwise_or,                       *)
(* handle_meta='first_found').                                             *)
_standard_nddata_op(h, nds, fn, operand, indices) ==
    IF Len(operand.nddata) # Len(indices)
    THEN [res |-> "ValueError", heap |-> h, nddata |-> nds]
    ELSE _oper_fn(h, nds, fn, "bitwise_or", "first_found", operand, indices)

(* __iadd__, __isub__, __imul__ and __itruediv__ of FitsProvider.          *)
InPlace ==
    [iadd |-> "add", isub |-> "subtract", imul |-> "multiply",
     itruediv |-> "divide"]

(* -------------------- standardizeWCS on a list of inputs -------------- *)
(* An input of the list: its PHU timestamps and filename as above, its     *)
(* tags, whether its pointing is self-consistent, whether it starts a new  *)
(* group after the input worked on before it (another observation_id or    *)
(* too long a dead time), its position angle (pa) and the input whose      *)
(* Pointing its WCS was last fixed from (fixed_by, 0: never fixed).        *)
(* The state of the loop is st = [res, ads, bad_wcs_list, base_pointing,   *)
(* last_pointing, started], the Pointings and the list as positions in     *)
(* ads, 0 for None; started says that last_endtime is set.                 *)
Skipped(ad) == ad.tags \cap {"ARC", "BIAS", "DARK", "FLAT"} # {}

(* Pointing.fix_wcs(ad) for the Pointing of ads[p] and ad = ads[i]: a      *)
(* rotation between the two is a NotImplementedError (no centre of         *)
(* rotation for the instrument).                                           *)
fix_wcs(st, p, i) ==
    IF st.ads[p].pa # st.ads[i].pa
    THEN [st EXCEPT !.res = "NotImplementedError"]
    ELSE [st EXCEPT !.ads[i].fixed_by = p]

(* The while loop over bad_wcs_list once a base Pointing is found.         *)
RECURSIVE FixBackedUp(_)
FixBackedUp(st) ==
    IF st.res # "ok" \/ st.bad_wcs_list = <<>> THEN st
    ELSE FixBackedUp(fix_wcs([st EXCEPT !.bad_wcs_list = Tail(@)],
                             st.base_pointing, Head(st.bad_wcs_list)))

(* The fix of ads[i] from the base Pointing, or else from the last one.    *)
FixOne(st, i) ==
    IF st.last_pointing = 0 THEN fix_wcs(st, st.base_pointing, i)
    ELSE IF fix_wcs(st, st.base_pointing, i).res = "ok"
    THEN fix_wcs(st, st.base_pointing, i)
    ELSE fix_wcs(st, st.last_pointing, i)

(* The part of a turn of the loop from 'if needs_fixing or ...' on.        *)
WcsTurnFix(st, i, bad_wcs) ==
    LET needs_fixing == ~st.ads[i].consistent
        s1 == IF needs_fixing \/ bad_wcs = "bootstrap"
              THEN IF bad_wcs = "exit" \/ st.base_pointing = 0
                   THEN [st EXCEPT !.bad_wcs_list = Append(@, i)]
                   ELSE FixOne(st, i)
              ELSE st
    IN  IF s1.res # "ok" \/ needs_fixing THEN [s1 EXCEPT !.started = TRUE]
        ELSE IF s1.base_pointing # 0
        THEN [s1 EXCEPT !.last_pointing = i, !.started = TRUE]
        ELSE IF bad_wcs = "exit"
        THEN [s1 EXCEPT !.last_pointing = i, !.base_pointing = i,
                        !.started = TRUE]
        ELSE FixBackedUp([s1 EXCEPT !.last_pointing = i, !.base_pointing = i,
                                    !.started = TRUE])

(* One turn of the loop over adinputs.                                     *)
WcsTurn(st, i, bad_wcs) ==
    IF Skipped(st.ads[i]) THEN st
    ELSE IF st.started /\ st.ads[i].newgroup
    THEN IF st.base_pointing = 0 THEN [st EXCEPT !.res = "ValueError"]
         ELSE WcsTurnFix([st EXCEPT !.base_pointing = 0,
                                    !.last_pointing = 0], i, bad_wcs)
    ELSE WcsTurnFix(st, i, bad_wcs)

RECURSIVE WcsLoop(_, _, _)
WcsLoop(st, i, bad_wcs) ==
    IF st.res # "ok" \/ i > Len(st.ads) THEN st
    ELSE WcsLoop(WcsTurn(st, i, bad_wcs), i + 1, bad_wcs)

(* The end of standardizeWCS: the exit asked for, or else the timestamp    *)
(* and the new filename for every input.                                   *)
WcsFinish(st, suffix, bad_wcs, now) ==
    IF st.res # "ok" THEN st
    ELSE IF bad_wcs = "exit" /\ st.bad_wcs_list # <<>>
    THEN [st EXCEPT !.res = "ValueError"]
    ELSE [st EXCEPT !.ads =
             [k \in 1..Len(st.ads) |->
                 update_filename(mark_history(st.ads[k],
                                              timestamp_keys.standardizeWCS,
                                              now), suffix)]]

(* Faulty variant: the inputs are marked before the exit is looked at.     *)
standardizeWCS_list_marked(adinputs, suffix, bad_wcs, now) ==
    LET st == WcsLoop([res |-> "ok", ads |-> adinputs, bad_wcs_list |-> <<>>,
                       base_pointing |-> 0, last_pointing |-> 0,
                       started |-> FALSE], 1, bad_wcs)
        marked == WcsFinish([st EXCEPT !.res = "ok"], suffix, "fix", now)
    IN  IF bad_wcs = "ignore"
        THEN [res |-> "ok", ads |-> adinputs, bad_wcs_list |-> <<>>,
              base_pointing |-> 0, last_pointing |-> 0, started |-> FALSE]
        ELSE IF st.res = "ok" /\ bad_wcs = "exit" /\ st.bad_wcs_list # <<>>
        THEN [marked EXCEPT !.res = "ValueError"]
        ELSE WcsFinish(st, suffix, bad_wcs, now)

(* standardizeWCS(adinputs, suffix=suffix, bad_wcs=bad_wcs): the state of  *)
(* the loop at the end, res and ads of which are the outcome.              *)
standardizeWCS_list(adinputs, suffix, bad_wcs, now) ==
    IF bad_wcs = "ignore"
    THEN [res |-> "ok", ads |-> adinputs, bad_wcs_list |-> <<>>,
          base_pointing |-> 0, last_pointing |-> 0, started |-> FALSE]
    ELSE WcsFinish(WcsLoop([res |-> "ok", ads |-> adinputs,
                            bad_wcs_list |-> <<>>, base_pointing |-> 0,
                            last_pointing |-> 0, started |-> FALSE],
                           1, bad_wcs),
                   suffix, bad_wcs, now)

(* ------------------------------ actions ------------------------------- *)
Init ==
    /\ heap = <<>>
    /\ nddata = <<>>
    /\ views = <<>>
    /\ attrs = <<>>
    /\ event = NoEvent
    /\ logger = Logger0

Headers ==
    {[hname |-> NONE, hver |-> NoVer], [hname |-> "SCI", hver |-> 1],
     [hname |-> "FOO", hver |-> 1]}
CustomHeaders == {Nothing, Some([hname |-> "FOO", hver |-> NoVer])}
FirstUnit == IF nddata = <<>> THEN {} ELSE {nddata[1]}

(* An append is explored while the model has room for its outcome.         *)
Room(out) ==
    /\ Len(out.nddata) <= MaxUnits
    /\ \A r \in 1..Len(out.heap) : out.heap[r].ver <= MaxVer

Commit(out) ==
    /\ Room(out)
    /\ heap' = Collect(out.heap, out.nddata)
    /\ nddata' = Renamed(out.nddata)

(* append(array, name=name): a raw array at the top level.                 *)
AppendArray ==
    \E data \in Pixels, name \in ExtNames :
        LET out == _append_array(heap, nddata, data, name, 0)
        IN  /\ Commit(out)
            /\ event' = Ev("append_array", out.res, name, 0, 0, 0)
            /\ UNCHANGED <<views, attrs, logger>>

(* append(ImageHDU, name=name, reset_ver=reset_ver) at the top level.      *)
AppendImageHDU ==
    \E hd \in Headers, name \in ExtNames, reset_ver \in BOOLEAN :
        LET hdu == [hname |-> hd.hname, hver |-> hd.hver, data |-> 1]
            out == _append_imagehdu(heap, nddata, hdu, name, 0, reset_ver)
        IN  /\ Commit(out)
            /\ event' = EvAppend("append_imagehdu", out.res, name, reset_ver,
                                  hd.hname, hd.hver)
            /\ UNCHANGED <<views, attrs, logger>>

(* append(nd, header=header, reset_ver=reset_ver, add_to=add_to) of a      *)
(* fully-formed NDData object built by the caller.                         *)
AppendNewNDData ==
    \E hd \in Headers, mask \in {Nothing}, reset_ver \in BOOLEAN,
       add_to \in {0} \cup FirstUnit :
        LET r == NewRef(heap)
            h0 == Alloc(heap, NewND(hd.hname, hd.hver, 1, mask, Nothing))
            out == _append_raw_nddata(h0, nddata, r, NONE, Nothing, add_to,
                                      reset_ver)
        IN  /\ Commit(out)
            /\ event' = EvAppend("append_nddata", out.res, NONE, reset_ver,
                                  hd.hname, hd.hver)
            /\ UNCHANGED <<views, attrs, logger>>

(* The same call with an NDData object the caller still holds, which may   *)
(* be a unit of this Container already.                                    *)
AppendHeldNDData ==
    \E ref \in Refs, header \in CustomHeaders, reset_ver \in BOOLEAN :
        LET out == _append_raw_nddata(heap, nddata, ref, NONE, header, 0,
                                      reset_ver)
        IN  /\ Commit(out)
            /\ event' = EvAppend("append_nddata", out.res, NONE, reset_ver,
                                  IF header = Nothing THEN heap[ref].hname
                                  ELSE header[1].hname,
                                  IF header = Nothing THEN heap[ref].hver
                                  ELSE header[1].hver)
            /\ UNCHANGED <<views, attrs, logger>>

(* append(ad) of a slice of another Container: its unit is deep-copied.    *)
AppendAstroData ==
    \E is_single \in BOOLEAN, header \in CustomHeaders :
        LET r == NewRef(heap)
            copy == [NewND("SCI", 1, 1, Nothing, Nothing) EXCEPT !.ver = 1]
            out == _append_astrodata(Alloc(heap, copy), nddata, r, is_single,
                                     header, 0)
        IN  /\ Commit(out)
            /\ event' = Ev("append_astrodata", out.res, NONE, 0, 0, 0)
            /\ UNCHANGED <<views, attrs, logger>>

AppendPrimaryHDU ==
    /\ event' = Ev("append_primaryhdu", "ValueError", NONE, 0, 0, 0)
    /\ UNCHANGED <<heap, nddata, views, attrs, logger>>

DelItem ==
    \E idx \in (-Len(nddata) - 1)..Len(nddata) :
        IF PyIndex(idx, Len(nddata)) = -1
        THEN /\ event' = Ev("delitem", "IndexError", NONE, idx, 0, 0)
             /\ UNCHANGED <<heap, nddata, views, attrs, logger>>
        ELSE /\ nddata' = Renamed(__delitem__(nddata, idx))
             /\ heap' = Collect(heap, __delitem__(nddata, idx))
             /\ event' = Ev("delitem", "ok", NONE, idx, 0, 0)
             /\ UNCHANGED <<views, attrs, logger>>

Next ==
    \/ AppendArray
    \/ AppendImageHDU
    \/ AppendNewNDData
    \/ AppendHeldNDData
    \/ AppendAstroData
    \/ AppendPrimaryHDU
    \/ DelItem

Spec == Init /\ [][Next]_vars

(* ----------------------- slicing specification ------------------------ *)
(* A Container filled with raw arrays, one live View taken from it, and    *)
(* slicing, re-slicing, iteration, access and deletion in any order.       *)
MaxSliceUnits == 3
MaxSliceVer == 4

(* The selectors tried on a sequence of n items.                           *)
Selectors(n) ==
    {IntSel(i) : i \in {-n - 1, -n, -1, 0, 1, n}}
    \cup {TupleSel(t) : t \in {<<>>, <<0>>, <<1, 0>>, <<-1, 0>>, <<0, n>>,
                               <<-n - 1, 0>>}}
    \cup {SliceSel(Nothing, Nothing, Nothing), SliceSel(Some(0), Some(2), Nothing),
          SliceSel(Some(1), Nothing, Nothing), SliceSel(Nothing, Nothing, Some(2)),
          SliceSel(Nothing, Nothing, Some(-1)), SliceSel(Some(n), Nothing, Nothing),
          SliceSel(Nothing, Nothing, Some(0))}
    \cup {OtherSel}

TheView == views[1]

(* (name, version) of the unit at each position of a list of positions.    *)
Identities(h, nds, positions) ==
    [k \in 1..Len(positions) |->
        [name |-> h[At(nds, positions[k])].hname,
         ver |-> h[At(nds, positions[k])].ver]]

(* append(array) while the model has room for maxu units and version maxv. *)
AppendUpTo(maxu, maxv) ==
    LET out == _append_array(heap, nddata, 1, NONE, 0)
    IN  /\ Len(out.nddata) <= maxu
        /\ \A r \in 1..Len(out.heap) : out.heap[r].ver <= maxv
        /\ heap' = Collect(out.heap, out.nddata)
        /\ nddata' = Renamed(out.nddata)
        /\ event' = Ev("append_array", out.res, NONE, 0, 0, 0)
        /\ UNCHANGED <<views, attrs, logger>>

SliceAppend == AppendUpTo(MaxSliceUnits, MaxSliceVer)

(* C[sel]: the View returned replaces the one held.                        *)
GetItemOf(sels) ==
    \E sel \in sels :
        LET out == Provider_getitem(nddata, sel)
        IN  /\ views' = IF out.res = "ok" THEN out.view ELSE views
            /\ event' = EvSel("getitem", out.res, Len(nddata), sel, out.view)
            /\ UNCHANGED <<heap, nddata, attrs, logger>>

GetItem == GetItemOf(Selectors(Len(nddata)))

(* V[sel] on the View held.                                                *)
ViewGetItem ==
    /\ views # <<>>
    /\ \E sel \in Selectors(Len(TheView.mapping)) :
        LET out == Proxy_getitem(TheView, sel)
        IN  /\ views' = IF out.res = "ok" THEN out.view ELSE views
            /\ event' = EvSel("view_getitem", out.res, Len(TheView.mapping),
                              sel, out.view)
            /\ UNCHANGED <<heap, nddata, attrs, logger>>

(* for v in C                                                              *)
Iter ==
    /\ event' = EvSel("iter", "ok", Len(nddata), OtherSel, Provider_iter(nddata))
    /\ UNCHANGED <<heap, nddata, views, attrs, logger>>

(* for v in V                                                              *)
ViewIter ==
    /\ views # <<>>
    /\ event' = EvSel("view_iter", "ok", Len(nddata), OtherSel,
                      Proxy_iter(TheView))
    /\ UNCHANGED <<heap, nddata, views, attrs, logger>>

(* V.nddata: the units of the View are looked up in the Container; the     *)
(* record keeps the (name, version) pairs read.                            *)
ViewRead ==
    /\ views # <<>>
    /\ LET pos == _mapped_nddata(TheView, nddata)
       IN  IF \E k \in 1..Len(pos) : pos[k] = -1
           THEN event' = EvSel("view_read", "IndexError", Len(nddata),
                               OtherSel, <<>>)
           ELSE event' = EvSel("view_read", "ok", Len(nddata), OtherSel,
                               Identities(heap, nddata, pos))
    /\ UNCHANGED <<heap, nddata, views, attrs, logger>>

NextSlice ==
    \/ SliceAppend
    \/ DelItem
    \/ GetItem
    \/ ViewGetItem
    \/ Iter
    \/ ViewIter
    \/ ViewRead

SpecSlice == Init /\ [][NextSlice]_vars

(* --------------------- index drift specification ---------------------- *)
(* A larger Container, a View taken from it by a range or an integer, and  *)
(* deletions under the View.                                               *)
MaxDriftUnits == 5
MaxDriftVer == 5

DriftSelectors ==
    {SliceSel(Some(0), Some(2), Nothing), SliceSel(Some(1), Nothing, Nothing),
     IntSel(-1), IntSel(0)}

DriftAppend == AppendUpTo(MaxDriftUnits, MaxDriftVer)
DriftGetItem == GetItemOf(DriftSelectors)

NextDrift ==
    \/ DriftAppend
    \/ DelItem
    \/ DriftGetItem
    \/ ViewRead

SpecDrift == Init /\ [][NextDrift]_vars

(* ---------------------- aliasing specification ------------------------ *)
(* A Container of two units, up to two Views of it held at once,           *)
(* assignment through a View and on the Container, and in-place addition   *)
(* through a View.  The model follows the units while at most MaxWrites of *)
(* their attributes differ from a fresh unit's and data is at most MaxData.*)
MaxWrites == 2
MaxData == 2

AliasSelectors ==
    {IntSel(0), IntSel(-1), TupleSel(<<0>>), SliceSel(Nothing, Nothing, Nothing)}
Values == {Nothing, Some(2)}

EvSet(op, res, attr, j, value) ==
    [op |-> op, res |-> res, name |-> attr, idx |-> j, sel |-> OtherSel,
     out |-> <<value>>]

(* The Container after append(array); append(array).                       *)
TwoUnits ==
    LET one == _append_array(<<>>, <<>>, 1, NONE, 0)
    IN  _append_array(one.heap, one.nddata, 1, NONE, 0)

InitAlias ==
    /\ heap = TwoUnits.heap
    /\ nddata = TwoUnits.nddata
    /\ views = <<>>
    /\ attrs = <<>>
    /\ event = NoEvent
    /\ logger = Logger0

Written(h) ==
    Cardinality({r \in 1..Len(h) : h[r].data # 1})
    + Cardinality({r \in 1..Len(h) : h[r].mask # Nothing})
    + Cardinality({r \in 1..Len(h) : h[r].unc # Nothing})
    + Cardinality({r \in 1..Len(h) : h[r].wcs # Nothing})

RoomAlias(h) ==
    /\ Written(h) <= MaxWrites
    /\ \A r \in 1..Len(h) : h[r].data <= MaxData

(* v = C[sel], kept next to the View already held or in place of one.      *)
TakeView ==
    \E sel \in AliasSelectors :
        LET out == Provider_getitem(nddata, sel)
        IN  /\ out.res = "ok"
            /\ \/ Len(views) < 2 /\ views' = views \o out.view
               \/ \E j \in 1..Len(views) :
                      views' = [views EXCEPT ![j] = out.view[1]]
            /\ event' = Ev("getitem", out.res, NONE, 0, 0, 0)
            /\ UNCHANGED <<heap, nddata, attrs, logger>>

(* views[j].attr = value                                                   *)
ViewSetAttr ==
    \E j \in 1..Len(views), attr \in Attributes, value \in Values :
        LET out == Proxy_setattr(heap, nddata, views[j], attr, value)
        IN  /\ RoomAlias(out.heap)
            /\ heap' = out.heap
            /\ event' = EvSet("view_set", out.res, attr, j, value)
            /\ UNCHANGED <<nddata, views, attrs, logger>>

(* C.attr = value                                                          *)
ProviderSetAttr ==
    \E attr \in Attributes :
        LET out == Provider_setattr(attrs, attr, Some(2))
        IN  /\ attrs' = out.attrs
            /\ event' = EvSet("set", out.res, attr, 0, Some(2))
            /\ UNCHANGED <<heap, nddata, views, logger>>

(* views[j] += 1                                                           *)
ViewIAdd ==
    \E j \in 1..Len(views) :
        LET out == _oper(heap, nddata, 1, views[j].mapping)
        IN  /\ RoomAlias(Collect(out.heap, out.nddata))
            /\ heap' = Collect(out.heap, out.nddata)
            /\ nddata' = Renamed(out.nddata)
            /\ event' = EvSet("view_iadd", out.res, "data", j, 1)
            /\ UNCHANGED <<views, attrs, logger>>

NextAlias ==
    \/ TakeView
    \/ ViewSetAttr
    \/ ProviderSetAttr
    \/ ViewIAdd

SpecAlias == InitAlias /\ [][NextAlias]_vars

(* --------------------- arithmetic specification ----------------------- *)
(* A Container of three units, one View of it held at a time, and in-place *)
(* addition of a scalar or of another AstroData object to the Container or *)
(* to the View, while the data of every unit is at most MaxSum.            *)
MaxSum == 3

ArithSelectors ==
    {IntSel(1), TupleSel(<<2, 0>>), SliceSel(Some(1), Some(3), Nothing),
     SliceSel(Nothing, Some(2), Nothing), SliceSel(Nothing, Nothing, Nothing)}

(* The shapes of the units of an operand: that of the Container's arrays,  *)
(* or another.                                                             *)
OperandShapes == {Shape0, <<3, 3>>}

(* An operand of units with the given shapes; the data of its second unit  *)
(* differs from that of the others.                                        *)
OperandOf(single, shapes) ==
    [single |-> single,
     nddata |-> [j \in 1..Len(shapes) |->
                    [data |-> IF j = 2 THEN 2 ELSE 1, shape |-> shapes[j]]]]

(* The operands: a single slice of one unit, or an AstroData object of one *)
(* to three units.                                                         *)
Operands ==
    {OperandOf(TRUE, <<sh>>) : sh \in OperandShapes}
        \cup {OperandOf(FALSE, q) :
                 q \in UNION {[1..k -> OperandShapes] : k \in 1..3}}

EvArith(op, res, j, indices, operand) ==
    [op |-> op, res |-> res, name |-> NONE, idx |-> j, sel |-> OtherSel,
     out |-> <<>>, indices |-> indices, operand |-> operand]

(* The Container after three calls of append(array).                       *)
ThreeUnits ==
    _append_array(TwoUnits.heap, TwoUnits.nddata, 1, NONE, 0)

InitArith ==
    /\ heap = ThreeUnits.heap
    /\ nddata = ThreeUnits.nddata
    /\ views = <<>>
    /\ attrs = <<>>
    /\ event = NoEvent
    /\ logger = Logger0

RoomArith(h) == \A r \in 1..Len(h) : h[r].data <= MaxSum

(* v = C[sel], in place of the View held.                                  *)
ArithTakeView ==
    \E sel \in ArithSelectors :
        LET out == Provider_getitem(nddata, sel)
        IN  /\ out.res = "ok"
            /\ views' = out.view
            /\ event' = Ev("getitem", out.res, NONE, 0, 0, 0)
            /\ UNCHANGED <<heap, nddata, attrs, logger>>

(* The indices _oper is given: all positions for the Container (j = 0),    *)
(* the mapping of the View for views[j].                                   *)
TargetIndices(j) ==
    IF j = 0 THEN [k \in 1..Len(nddata) |-> k - 1] ELSE views[j].mapping

CommitArith(out) ==
    /\ RoomArith(Collect(out.heap, out.nddata))
    /\ heap' = Collect(out.heap, out.nddata)
    /\ nddata' = Renamed(out.nddata)
    /\ UNCHANGED <<views, attrs, logger>>

(* C += 1 (j = 0) or views[j] += 1                                         *)
IAddScalar ==
    \E j \in 0..Len(views) :
        LET out == _oper(heap, nddata, 1, TargetIndices(j))
        IN  /\ CommitArith(out)
            /\ event' = EvArith("iadd_scalar", out.res, j, TargetIndices(j), 1)

(* C += operand (j = 0) or views[j] += operand                             *)
IAddAstroData ==
    \E j \in 0..Len(views), operand \in Operands :
        LET out == _oper_astrodata(heap, nddata, operand, TargetIndices(j))
        IN  /\ CommitArith(out)
            /\ event' = EvArith("iadd_astrodata", out.res, j,
                                 TargetIndices(j), operand)

NextArith ==
    \/ ArithTakeView
    \/ IAddScalar
    \/ IAddAstroData

SpecArith == InitArith /\ [][NextArith]_vars

(* ---------------------- attaching specification ----------------------- *)
(* A Container of two units, one View of it held at a time, and arrays,    *)
(* image units and tables attached to a unit through the Container, the    *)
(* View's append and upper-case assignment on the View, while the units    *)
(* hold at most MaxOther attached objects in all.                          *)
MaxOther == 2

AttachSelectors ==
    {IntSel(0), IntSel(-1), SliceSel(Nothing, Nothing, Nothing)}

(* The names given (string literals, so that 'SCI' is the very object      *)
(* default_extension is) and the objects attached: an array, an ImageHDU   *)
(* and tables whose header has no EXTNAME or has one.                      *)
AttachNames == {NONE, "SCI", "DQ", "REFCAT"}
Arr == [kind |-> "array", hname |-> NONE]
AttachExts ==
    {[kind |-> "array", hname |-> NONE, data |-> Arr],
     [kind |-> "imagehdu", hname |-> "REFCAT", data |-> Arr],
     [kind |-> "table", hname |-> NONE, data |-> Arr],
     [kind |-> "table", hname |-> "VAR", data |-> Arr]}

EvAttach(op, res, name, ext, target) ==
    [op |-> op, res |-> res, name |-> name, idx |-> target, sel |-> OtherSel,
     out |-> <<>>, ext |-> ext]

InitAttach ==
    /\ heap = TwoUnits.heap
    /\ nddata = TwoUnits.nddata
    /\ views = <<>>
    /\ attrs = <<>>
    /\ event = NoEvent
    /\ logger = Logger0

Attached(h) ==
    Cardinality({r \in 1..Len(h) : h[r].mask # Nothing})
    + Cardinality({r \in 1..Len(h) : h[r].unc # Nothing})
    + Cardinality(UNION {{<<r, n>> : n \in DOMAIN h[r].other} :
                             r \in 1..Len(h)})

CommitAttach(out) ==
    /\ Attached(out.heap) <= MaxOther
    /\ heap' = out.heap
    /\ nddata' = out.nddata
    /\ attrs' = out.attrs
    /\ UNCHANGED <<views, logger>>

(* v = C[sel], in place of the View held.                                  *)
AttachTakeView ==
    \E sel \in AttachSelectors :
        LET out == Provider_getitem(nddata, sel)
        IN  /\ out.res = "ok"
            /\ views' = out.view
            /\ event' = Ev("getitem", out.res, NONE, 0, 0, 0)
            /\ UNCHANGED <<heap, nddata, attrs, logger>>

(* C.append(ext, name=name, add_to=nd) for a unit nd of C                  *)
ContainerAttach ==
    \E ext \in AttachExts, name \in AttachNames, k \in 1..Len(nddata) :
        LET out == append(heap, nddata, attrs, ext, name, nddata[k])
        IN  /\ CommitAttach(out)
            /\ event' = EvAttach("attach", out.res, name, ext, nddata[k])

(* views[1].append(ext, name)                                              *)
ViewAppend ==
    \E ext \in AttachExts, name \in AttachNames :
        /\ views # <<>>
        /\ LET out == Proxy_append(heap, nddata, attrs, TheView, ext, name)
           IN  /\ CommitAttach(out)
               /\ event' = EvAttach("view_append", out.res, name, ext,
                                     At(nddata, _mapped_nddata(TheView,
                                                               nddata)[1]))

(* views[1].NAME = ext                                                     *)
ViewSetUpper ==
    \E ext \in AttachExts, name \in AttachNames \ {NONE} :
        /\ views # <<>>
        /\ LET out == Proxy_setattr_upper(heap, nddata, attrs, TheView, name,
                                          ext)
           IN  /\ CommitAttach(out)
               /\ event' = EvAttach("view_setattr", out.res, name, ext,
                                     At(nddata, _mapped_nddata(TheView,
                                                               nddata)[1]))

NextAttach ==
    \/ AttachTakeView
    \/ ContainerAttach
    \/ ViewAppend
    \/ ViewSetUpper

SpecAttach == InitAttach /\ [][NextAttach]_vars

(* ------------------------ crop specification -------------------------- *)
(* A Container of two units with data of FullSide x FullSide pixels, the   *)
(* first with or without uncertainty, mask, a table and arrays attached,   *)
(* cropped through the Container or through the single View of a unit      *)
(* while the data to crop has at least CropMin rows and columns.           *)
FullSide == 100
CropMin == 40

(* (x1, y1, x2, y2): inside the full frame, inside a frame of CropMin      *)
(* pixels, and reaching past the last column.                              *)
CropRects ==
    {<<10, 10, 49, 49>>, <<0, 0, 39, 39>>, <<5, 5, FullSide, 9>>}

(* What may be attached to the first unit: a table, an array of the shape  *)
(* of the data and a smaller array.                                        *)
SideCars ==
    [CAT |-> [kind |-> "table", hname |-> "CAT"],
     OBJMASK |-> Array(FullSide, FullSide),
     SMALL |-> Array(10, 10)]

CropUnit(unc, mask, names) ==
    [NewND("SCI", 1, Array(FullSide, FullSide), mask, unc) EXCEPT
        !.ver = 1, !.shape = <<FullSide, FullSide>>,
        !.other = [n \in names |-> SideCars[n]],
        !.keys = KeysIn(<<"CAT", "OBJMASK", "SMALL">>, names)]

InitCrop ==
    /\ \E unc, mask \in {Nothing, Some(Array(FullSide, FullSide))},
          names \in SUBSET (DOMAIN SideCars) :
           heap = <<CropUnit(unc, mask, names),
                    [CropUnit(Nothing, Nothing, {}) EXCEPT !.hver = 2,
                                                           !.ver = 2]>>
    /\ nddata = <<1, 2>>
    /\ views = <<>>
    /\ attrs = <<>>
    /\ event = NoEvent
    /\ logger = Logger0

Croppable(nds) ==
    \A k \in 1..Len(nds) :
        heap[nds[k]].shape[1] >= CropMin /\ heap[nds[k]].shape[2] >= CropMin

EvCrop(op, res, k, rect) ==
    [op |-> op, res |-> res, name |-> NONE, idx |-> k, sel |-> OtherSel,
     out |-> <<>>, rect |-> rect]

(* C.crop(x1, y1, x2, y2)                                                  *)
Crop ==
    \E rect \in CropRects :
        LET out == _crop_impl(heap, nddata, rect[1], rect[2], rect[3], rect[4])
        IN  /\ Croppable(nddata)
            /\ heap' = out.heap
            /\ event' = EvCrop("crop", out.res, 0, rect)
            /\ UNCHANGED <<nddata, views, attrs, logger>>

(* C[k - 1].crop(x1, y1, x2, y2)                                           *)
ViewCrop ==
    \E rect \in CropRects, k \in 1..Len(nddata) :
        LET out == _crop_impl(heap, <<nddata[k]>>, rect[1], rect[2], rect[3],
                              rect[4])
        IN  /\ Croppable(<<nddata[k]>>)
            /\ heap' = out.heap
            /\ event' = EvCrop("crop", out.res, k, rect)
            /\ UNCHANGED <<nddata, views, attrs, logger>>

NextCrop ==
    \/ Crop
    \/ ViewCrop

SpecCrop == InitCrop /\ [][NextCrop]_vars

(* ------------------- header collection specification ------------------ *)
(* A Container filled with NDData objects whose headers have an EXTNAME or *)
(* none, and reads of a keyword through the collection of its headers.     *)
HeaderKeys == {"EXTNAME", "FOO"}

(* The default argument of get: Nothing when the call gives none.          *)
Defaults == {Nothing, Some("X")}

EvHdr(op, res, key, default, values, missing_at) ==
    [op |-> op, res |-> res, name |-> key, idx |-> 0, sel |-> OtherSel,
     out |-> values, default |-> default, missing_at |-> missing_at]

(* C.hdr()[key]                                                            *)
HdrGetItem ==
    \E key \in HeaderKeys :
        /\ nddata # <<>>
        /\ LET out == FitsHeaderCollection_getitem(hdr(heap, nddata), key)
           IN  event' = EvHdr("hdr_getitem", out.res, key, Nothing,
                              out.values, out.missing_at)
        /\ UNCHANGED <<heap, nddata, views, attrs, logger>>

(* C.hdr().get(key) and C.hdr().get(key, default): the parameter default   *)
(* is None when the call gives none.                                       *)
HdrGet ==
    \E key \in HeaderKeys, default \in Defaults :
        /\ nddata # <<>>
        /\ LET out == FitsHeaderCollection_get(hdr(heap, nddata), key,
                           IF default = Nothing THEN NONE ELSE default[1])
           IN  event' = EvHdr("hdr_get", out.res, key, default, out.values,
                              out.missing_at)
        /\ UNCHANGED <<heap, nddata, views, attrs, logger>>

NextHeader ==
    \/ AppendNewNDData
    \/ HdrGetItem
    \/ HdrGet

SpecHeader == Init /\ [][NextHeader]_vars

(* ------------------- windowed operation specification ----------------- *)
(* One NDData object of every shape of one or two axes of up to MaxAxis    *)
(* cells, its cells numbered from 1 in row-major order, and one call of    *)
(* windowedOp on it with a kernel of steps up to MaxStep.                  *)
MaxAxis == 7
MaxStep == 2

WindowShapes ==
    {<<n>> : n \in 1..MaxAxis} \cup ((1..MaxAxis) \X (1..MaxAxis))
Kernels ==
    {<<n>> : n \in 1..MaxStep} \cup ((1..MaxStep) \X (1..MaxStep))
Funcs ==
    [side : SUBSET (DOMAIN SideOffset), kind : {"NDData", "ndarray"},
     fail : {0}]
        \cup {[side |-> {}, kind |-> "NDData", fail |-> 2]}

(* The astropy logger as the call is made: as the session started, or set  *)
(* to another level by the caller since.                                   *)
Loggers == {Logger0, [Logger0 EXCEPT !.level = "DEBUG"]}

WindowInput(shape) ==
    [NewND("SCI", 1, [kind |-> "ndarray", shape |-> shape,
                      cells |-> [i \in 1..Size(shape) |-> i]],
           Nothing, Nothing) EXCEPT !.ver = 1, !.shape = shape]

(* The input with a side-car REFCAT and its header, as append files them.  *)
WithSideCar(nd) ==
    [nd EXCEPT !.other = [REFCAT |-> [kind |-> "ndarray", shape |-> <<1>>,
                                      cells |-> <<1>>]],
               !.keys = <<"REFCAT">>,
               !.other_header = [REFCAT |-> [hname |-> "REFCAT",
                                             hver |-> nd.ver]]]

(* The shapes of the inputs that come with a side-car.                    *)
SideCarShapes == {<<n>> : n \in 1..MaxAxis} \cup {<<2, 2>>}

InitWindow ==
    /\ heap \in {<<WindowInput(shape)>> : shape \in WindowShapes}
                 \cup {<<WithSideCar(WindowInput(shape))>> :
                           shape \in SideCarShapes}
    /\ nddata = <<1>>
    /\ views = <<>>
    /\ attrs = <<>>
    /\ event = NoEvent
    /\ logger \in Loggers

(* outs: meta['other'] of what func returned for each box, in order.       *)
EvWindow(res, func, kernel, boxes, outs, tiled, before) ==
    [op |-> "windowedOp", res |-> res, name |-> NONE, idx |-> 0,
     sel |-> OtherSel, out |-> outs, func |-> func, kernel |-> kernel,
     boxes |-> boxes, tiled |-> tiled, before |-> before]

(* meta['other'] of what func returns for each box, in order.              *)
Returned(func, sequence, boxes) ==
    [i \in 1..Len(boxes) |->
        Call(func, [k \in 1..Len(sequence) |->
                       window_getitem(sequence[k], boxes[i])]).other]

(* result = windowedOp(func, [nd], kernel), the one call of a behaviour:   *)
(* the result is a new object whose meta is the meta of nd.  The history   *)
(* keeps the inputs as they were before the call.                          *)
WindowedOp ==
    /\ event = NoEvent
    /\ \E func \in Funcs, kernel \in Kernels :
        \E sequence \in {[k \in 1..Len(nddata) |-> heap[nddata[k]]]} :
            \E ret \in {windowedOp(func, sequence, kernel, logger)} :
                /\ heap' = IF ret.res = "ok"
                           THEN <<SharedMeta(heap[nddata[1]], ret.result),
                                  ret.result>>
                           ELSE <<SharedMeta(heap[nddata[1]], ret.result)>>
                /\ logger' = ret.logger
                /\ event' = EvWindow(ret.res, func, kernel, ret.boxes,
                                     Returned(func, sequence, ret.boxes),
                                     ret.tiled, sequence)
                /\ UNCHANGED <<nddata, views, attrs>>

NextWindow == WindowedOp

SpecWindow == InitWindow /\ [][NextWindow]_vars

(* ------------------------- loader specification ---------------------- *)
(* One load of a file: a primary HDU followed by up to MaxHdus different   *)
(* extensions out of Extensions, in any order, opened by its path (memory  *)
(* mapped) or handed over as an HDUList in memory.                         *)
MaxHdus == 3

(* [kind, EXTNAME, EXTVER, fwcs, parses]                                   *)
Extensions ==
    {<<"image", "SCI", 1, "none", FALSE>>,
     <<"image", "SCI", 2, "gwcs", FALSE>>,
     <<"image", "SCI", 3, "TypeError", FALSE>>,
     <<"image", "SCI", NoVer, "none", FALSE>>,
     <<"image", NONE, NoVer, "none", FALSE>>,
     <<"image", NONE, 1, "none", FALSE>>,
     <<"image", "DQ", 1, "none", FALSE>>,
     <<"image", "VAR", 1, "none", FALSE>>,
     <<"image", "DQ", 2, "none", FALSE>>,
     <<"image", "OBJMASK", 1, "none", FALSE>>,
     <<"asciitable", "WCS", 1, "none", TRUE>>,
     <<"asciitable", "WCS", 1, "none", FALSE>>,
     <<"asciitable", "WCS", 2, "none", TRUE>>,
     <<"table", "CAT", 1, "none", FALSE>>,
     <<"table", "MDF", 1, "none", FALSE>>,
     <<"table", "REFCAT", NoVer, "none", FALSE>>,
     <<"table", NONE, 1, "none", FALSE>>}

PrimaryHDUs ==
    {HDU(1, "primary", NONE, NoVer, fwcs, FALSE) : fwcs \in {"none", "gwcs"}}
        \cup {[HDU(1, "primary", NONE, NoVer, "none", FALSE)
                  EXCEPT !.hasdata = TRUE]}

Distinct(q) ==
    \A i, j \in 1..Len(q) : i # j => q[i] # q[j]
ExtensionLists ==
    UNION {{q \in [1..n -> Extensions] : Distinct(q)} : n \in 0..MaxHdus}
FileOf(phu, exts) ==
    <<phu>> \o [k \in 1..Len(exts) |->
                   HDU(k + 1, exts[k][1], exts[k][2], exts[k][3], exts[k][4],
                       exts[k][5])]
Files ==
    {FileOf(phu, exts) : phu \in PrimaryHDUs, exts \in ExtensionLists}

EvLoad(res, source, memmap, hdulist, dropped) ==
    [op |-> "load", res |-> res, name |-> NONE, idx |-> 0, sel |-> OtherSel,
     out |-> dropped, source |-> source, memmap |-> memmap,
     hdulist |-> hdulist]

(* provider = FitsLoader().load(source): the one load of a behaviour.  An  *)
(* error leaves no provider.                                               *)
Load ==
    /\ event = NoEvent
    /\ \E source \in Files, memmap \in BOOLEAN :
        \E ret \in {load(source, memmap)} :
            /\ heap' = IF ret.st.res = "ok"
                       THEN Collect(ret.st.heap, ret.st.nddata) ELSE heap
            /\ nddata' = IF ret.st.res = "ok" THEN Renamed(ret.st.nddata)
                         ELSE nddata
            /\ attrs' = IF ret.st.res = "ok" THEN ret.st.attrs ELSE attrs
            /\ event' = EvLoad(ret.st.res, source, memmap, ret.hdulist,
                               ret.st.dropped)
            /\ UNCHANGED <<views, logger>>

NextLoad == Load

SpecLoad == Init /\ [][NextLoad]_vars

(* ---------------------- round trip specification --------------------- *)
(* A Container of one or two units, with or without mask, uncertainty and  *)
(* transform, to which arrays and tables are appended, to a unit or to the *)
(* Container, while it holds at most MaxFiled of them; it is then written  *)
(* with to_hdulist, and what is written is loaded and written again.       *)
MaxFiled == 2

RoundNames == {NONE, "DQ", "MDF", "OBJMASK"}
RoundExts ==
    {[kind |-> "array", hname |-> NONE, data |-> Arr],
     [kind |-> "table", hname |-> NONE, data |-> Arr],
     [kind |-> "table", hname |-> "CAT", data |-> Arr]}
RoundTransforms ==
    {Nothing, Some([from |-> "table", id |-> 0]),
     Some([from |-> "header", id |-> 0])}
RoundUnit(ver, mask, unc, wcs) ==
    [NewND(default_extension, ver, Arr, mask, unc)
        EXCEPT !.ver = ver, !.wcs = wcs]

EvRound(op, res, memmap, hlst, loaded, again) ==
    [op |-> op, res |-> res, name |-> NONE, idx |-> 0, sel |-> OtherSel,
     out |-> <<>>, memmap |-> memmap, hlst |-> hlst, loaded |-> loaded,
     again |-> again]

InitRound ==
    /\ \E mask, unc \in {Nothing, Some(Arr)}, wcs \in RoundTransforms,
          more \in {<<>>, <<RoundUnit(2, Nothing, Nothing, Nothing)>>} :
           /\ heap = <<RoundUnit(1, mask, unc, wcs)>> \o more
           /\ nddata = [k \in 1..(1 + Len(more)) |-> k]
    /\ views = <<>>
    /\ attrs = <<>>
    /\ event = NoEvent
    /\ logger = Logger0

Filed(h, at) ==
    Cardinality(DOMAIN at)
    + Cardinality(UNION {{<<r, n>> : n \in DOMAIN h[r].other} :
                             r \in 1..Len(h)})

(* C.append(ext, name=name, add_to=nd) for a unit nd of C, and             *)
(* C.append(table, name=name).                                             *)
RoundAppend ==
    \E ext \in RoundExts, name \in RoundNames, k \in 0..Len(nddata) :
        /\ event.op \in {"init", "append"}
        /\ k = 0 => ext.kind = "table"
        /\ \E out \in {append(heap, nddata, attrs, ext, name,
                              IF k = 0 THEN 0 ELSE nddata[k])} :
            /\ out.res = "ok"
            /\ Filed(out.heap, out.attrs) <= MaxFiled
            /\ heap' = out.heap
            /\ nddata' = out.nddata
            /\ attrs' = out.attrs
            /\ event' = EvRound("append", "ok", FALSE, <<>>, <<>>, <<>>)
            /\ UNCHANGED <<views, logger>>

(* hlst = C.to_hdulist()                                                   *)
Write ==
    /\ event.op # "write"
    /\ event' = EvRound("write", "ok", FALSE,
                        to_hdulist(heap, nddata, attrs), <<>>, <<>>)
    /\ UNCHANGED <<heap, nddata, views, attrs, logger>>

(* FitsLoader().load of what to_hdulist gave, handed over as it is or      *)
(* written to a file and opened with memory mapping, and to_hdulist of     *)
(* what was loaded.                                                        *)
RoundTrip ==
    /\ event.op # "roundtrip"
    /\ \E memmap \in BOOLEAN :
        \E hlst \in {to_hdulist(heap, nddata, attrs)} :
            \E ret \in {load(hlst, memmap)} :
                event' = EvRound("roundtrip", ret.st.res, memmap, hlst,
                             ret.st,
                             IF ret.st.res = "ok"
                             THEN to_hdulist(ret.st.heap, ret.st.nddata,
                                             ret.st.attrs)
                             ELSE <<>>)
    /\ UNCHANGED <<heap, nddata, views, attrs, logger>>

NextRound ==
    \/ RoundAppend
    \/ Write
    \/ RoundTrip

SpecRound == InitRound /\ [][NextRound]_vars

(* ------------------------ lazy read specification --------------------- *)
(* One image HDU of MaxCells stored integers, and reads of it through a    *)
(* FitsLazyLoadable: the whole array (data) and sections of it.            *)
MaxCells == 2

RawValues(bitpix) ==
    IF bitpix = 8 THEN {0, 5, 255} ELSE {-32768, -1, 0, 5}
LazyHDUs ==
    UNION {[hname : {"SCI", "DQ"}, _orig_bitpix : {bitpix},
            _orig_bscale : {1, 2}, _orig_bzero : {0, 3, 32768},
            _uint : BOOLEAN, raw : [1..MaxCells -> RawValues(bitpix)]] :
              bitpix \in {8, 16}}
Sections ==
    {sl \in [start : 0..(MaxCells - 1), stop : 1..MaxCells] :
        sl.start < sl.stop}

EvRead(op, sl, out) ==
    [op |-> op, res |-> "ok", name |-> NONE, idx |-> 0, sel |-> sl,
     out |-> out]

InitLazy ==
    /\ \E obj \in LazyHDUs : heap = <<obj>>
    /\ nddata = <<>>
    /\ views = <<>>
    /\ attrs = <<>>
    /\ event = NoEvent
    /\ logger = Logger0

(* FitsLazyLoadable(hdu)[start:stop]                                       *)
LazyGetItem ==
    /\ \E sl \in Sections :
           event' = EvRead("lazy_getitem", sl,
                           FitsLazyLoadable_getitem(heap[1], sl))
    /\ UNCHANGED <<heap, nddata, views, attrs, logger>>

(* FitsLazyLoadable(hdu).data                                              *)
LazyData ==
    /\ event' = EvRead("lazy_data", [start |-> 0, stop |-> MaxCells],
                       FitsLazyLoadable_data(heap[1]))
    /\ UNCHANGED <<heap, nddata, views, attrs, logger>>

NextLazy ==
    \/ LazyGetItem
    \/ LazyData

SpecLazy == InitLazy /\ [][NextLazy]_vars

(* ----------------------- primitives specification -------------------- *)
(* One AstroData object, the primitives run on it in any order and any     *)
(* number of times, and the clock, which the timestamps are read from, up  *)
(* to MaxClock.                                                            *)
MaxClock == 3

Suffixes == {"_one", "_two"}
MdfFound == {NONE, "MDF"}
BadWcs == {"exit", "fix", "bootstrap", "ignore"}

EvPrim(op, res) ==
    [op |-> op, res |-> res, name |-> NONE, idx |-> 0, sel |-> OtherSel,
     out |-> <<>>]

InitPrim ==
    /\ \E tags \in {{}, {"LS"}, {"BIAS"}}, mdf, consistent \in BOOLEAN,
          radesys \in {NONE, "RADECSYS"} :
           heap = <<[phu |-> <<>>, filename |-> "", tags |-> tags,
                     MDF |-> mdf, BUNIT |-> NONE, radesys |-> radesys,
                     consistent |-> consistent, wcs |-> "original"]>>
    /\ nddata = <<>>
    /\ views = <<>>
    /\ attrs = [now |-> 1]
    /\ event = NoEvent
    /\ logger = Logger0

Tick ==
    /\ attrs.now < MaxClock
    /\ attrs' = [attrs EXCEPT !.now = @ + 1]
    /\ event' = EvPrim("tick", "ok")
    /\ UNCHANGED <<heap, nddata, views, logger>>

AddMDF ==
    /\ \E suffix \in Suffixes, mdf \in MdfFound :
           heap' = <<addMDF(heap[1], suffix, mdf, attrs.now)>>
    /\ event' = EvPrim("addMDF", "ok")
    /\ UNCHANGED <<nddata, views, attrs, logger>>

StandardizeObservatoryHeaders ==
    /\ \E suffix \in Suffixes :
           heap' = <<standardizeObservatoryHeaders(heap[1], suffix,
                                                   attrs.now)>>
    /\ event' = EvPrim("standardizeObservatoryHeaders", "ok")
    /\ UNCHANGED <<nddata, views, attrs, logger>>

StandardizeStructure ==
    /\ \E suffix \in Suffixes, attach_mdf \in BOOLEAN, mdf \in MdfFound :
           heap' = <<standardizeStructure(heap[1], suffix, attach_mdf, mdf,
                                          attrs.now)>>
    /\ event' = EvPrim("standardizeStructure", "ok")
    /\ UNCHANGED <<nddata, views, attrs, logger>>

StandardizeWCS ==
    /\ \E suffix \in Suffixes, bad_wcs \in BadWcs :
        \E ret \in {standardizeWCS(heap[1], suffix, bad_wcs, attrs.now)} :
            /\ heap' = <<ret.ad>>
            /\ event' = EvPrim("standardizeWCS", ret.res)
    /\ UNCHANGED <<nddata, views, attrs, logger>>

NextPrim ==
    \/ Tick
    \/ AddMDF
    \/ StandardizeObservatoryHeaders
    \/ StandardizeStructure
    \/ StandardizeWCS

SpecPrim == InitPrim /\ [][NextPrim]_vars

(* --------------------- path and filename specification --------------- *)
(* A Container whose path and filename are assigned, directly and through  *)
(* a View, any number of times; a path is at most MaxDepth components      *)
(* long.  The history keeps the attributes before the assignment (before)  *)
(* and the base name of the first path assigned that was not None (first). *)
MaxDepth == 5

PathValues ==
    {Nothing, Some(<<"/", "d1", "x.fits">>), Some(<<"/", "d2", "y.fits">>),
     Some(<<"z.fits">>)}
NameValues ==
    {<<"x.fits">>, <<"w.fits">>, <<"sub", "y.fits">>,
     <<"/", "d2", "y.fits">>}

EvPath(op, res, value, before, first) ==
    [op |-> op, res |-> res, name |-> NONE, idx |-> 0, sel |-> OtherSel,
     out |-> <<>>, value |-> value, before |-> before, first |-> first]

(* The first path assigned that was not None, after at became at2.         *)
FirstName(first, at2) ==
    IF first = Nothing /\ at2._path # Nothing
    THEN Some(basename(at2._path[1]))
    ELSE first

InitPath ==
    /\ heap = <<>>
    /\ nddata = <<>>
    /\ views = <<>>
    /\ attrs = [_path |-> Nothing, _orig_filename |-> Nothing]
    /\ event = EvPath("init", "ok", Nothing, attrs, Nothing)
    /\ logger = Logger0

SetPath ==
    /\ \E value \in PathValues :
        \E at2 \in {path_setter(attrs, value)} :
            /\ attrs' = at2
            /\ event' = EvPath("path", "ok", value, attrs,
                               FirstName(event.first, at2))
    /\ UNCHANGED <<heap, nddata, views, logger>>

SetFilename ==
    /\ \E value \in NameValues :
        \E ret \in {filename_setter(attrs, value)} :
            /\ IF ret.attrs._path = Nothing THEN TRUE
               ELSE Len(ret.attrs._path[1]) <= MaxDepth
            /\ attrs' = ret.attrs
            /\ event' = EvPath("filename", ret.res, Some(value), attrs,
                               FirstName(event.first, ret.attrs))
    /\ UNCHANGED <<heap, nddata, views, logger>>

ViewSetPath ==
    /\ \E attribute \in {"path", "filename"},
          value \in PathValues \cup {Some(n) : n \in NameValues} :
        \E ret \in {Proxy_setattr_path(attrs, attribute, value)} :
            /\ attrs' = ret.attrs
            /\ event' = EvPath("view_" \o attribute, ret.res, value, attrs,
                               event.first)
    /\ UNCHANGED <<heap, nddata, views, logger>>

NextPath ==
    \/ SetPath
    \/ SetFilename
    \/ ViewSetPath

SpecPath == InitPath /\ [][NextPath]_vars

(* --------------------------- View specification ----------------------- *)
(* A Container of three units and one table, and the operations of a View  *)
(* of it: delete by index, append, assignment of an upper-case attribute   *)
(* and += with a scalar or with an AstroData object that has tables.       *)
MaxViewSum == 2
MaxViewOther == 1

Tab(hname, id) == [kind |-> "table", hname |-> hname, id |-> id]

InitView ==
    /\ heap = ThreeUnits.heap
    /\ nddata = ThreeUnits.nddata
    /\ views = <<>>
    /\ attrs = _append_table_top(Registry0, Tab("MDF", 1), NONE).attrs
    /\ event = NoEvent
    /\ logger = Logger0

ViewSelectors ==
    {IntSel(1), SliceSel(Nothing, Some(2), Nothing), TupleSel(<<2, 0>>),
     SliceSel(Some(1), Some(3), Nothing)}

OperandUnit == [data |-> 1, shape |-> Shape0]
OperandTables == {<<>>, [CAT |-> Tab("CAT", 2)]}
ViewOperands ==
    {[single |-> k = 0,
      nddata |-> [j \in 1..(IF k = 0 THEN 1 ELSE k) |-> OperandUnit],
      tables |-> t] : k \in {0, 2}, t \in OperandTables}
ViewExts == {ext \in AttachExts : ext.hname = NONE}
ViewNames == {NONE, "DQ", "REFCAT"}

EvView(op, res, name, operand) ==
    [op |-> op, res |-> res, name |-> name, idx |-> 0, sel |-> OtherSel,
     out |-> <<>>, operand |-> operand]

CommitView(out) ==
    /\ Attached(out.heap) <= MaxViewOther
    /\ \A r \in 1..Len(out.heap) : out.heap[r].data <= MaxViewSum
    /\ heap' = Collect(out.heap, out.nddata)
    /\ nddata' = Renamed(out.nddata)
    /\ attrs' = out.attrs
    /\ UNCHANGED <<views, logger>>

(* v = C[sel], in place of the View held.                                  *)
TakeAView ==
    \E sel \in ViewSelectors :
        \E out \in {Provider_getitem(nddata, sel)} :
            /\ out.res = "ok"
            /\ views' = out.view
            /\ event' = EvView("getitem", out.res, NONE, 0)
            /\ UNCHANGED <<heap, nddata, attrs, logger>>

(* del v[idx]                                                              *)
ViewDelItem ==
    \E idx \in 0..(Len(nddata) - 1) :
        \E out \in {Proxy_delitem(nddata, idx)} :
            /\ views # <<>>
            /\ nddata' = out.nddata
            /\ event' = EvView("view_delitem", out.res, NONE, 0)
            /\ UNCHANGED <<heap, views, attrs, logger>>

(* v.append(ext, name)                                                     *)
ViewAttach ==
    \E ext \in ViewExts, name \in ViewNames :
        /\ views # <<>>
        /\ \E out \in {Proxy_append(heap, nddata, attrs, TheView, ext,
                                    name)} :
               /\ CommitView(out)
               /\ event' = EvView("view_append", out.res, name, 0)

(* v.NAME = ext                                                            *)
ViewSetName ==
    \E ext \in ViewExts, name \in ViewNames \ {NONE} :
        /\ views # <<>>
        /\ \E out \in {Proxy_setattr_upper(heap, nddata, attrs, TheView,
                                           name, ext)} :
               /\ CommitView(out)
               /\ event' = EvView("view_setattr", out.res, name, 0)

(* v += 1                                                                  *)
ViewIAddScalar ==
    /\ views # <<>>
    /\ \E out \in {_oper(heap, nddata, 1, TheView.mapping)} :
           /\ CommitView(out @@ [attrs |-> attrs])
           /\ event' = EvView("view_iadd", out.res, NONE, 1)

(* v += operand                                                            *)
ViewIAddAstroData ==
    \E operand \in ViewOperands :
        /\ views # <<>>
        /\ \E out \in {_oper_whole(heap, nddata, attrs, operand,
                                   TheView.mapping)} :
               /\ CommitView(out)
               /\ event' = EvView("view_iadd", out.res, NONE, operand)

NextView ==
    \/ TakeAView
    \/ ViewDelItem
    \/ ViewAttach
    \/ ViewSetName
    \/ ViewIAddScalar
    \/ ViewIAddAstroData

SpecView == InitView /\ [][NextView]_vars

(* ------------------------ extver_map specification -------------------- *)
(* The appends and deletes of Spec, one View taken of the Container, and   *)
(* extver_map() read on the Container and on the View.                     *)
ExtverSelectors ==
    {IntSel(0), TupleSel(<<1, 0>>), SliceSel(Nothing, Nothing, Nothing),
     SliceSel(Some(1), Nothing, Nothing)}

EvExtver(op, res, out) ==
    [op |-> op, res |-> res, name |-> NONE, idx |-> 0, sel |-> OtherSel,
     out |-> out]

ExtverTakeView ==
    \E sel \in ExtverSelectors :
        \E out \in {Provider_getitem(nddata, sel)} :
            /\ out.res = "ok"
            /\ views' = out.view
            /\ event' = EvExtver("getitem", out.res, <<>>)
            /\ UNCHANGED <<heap, nddata, attrs, logger>>

ExtverMap ==
    \E ret \in {Provider_extver_map(heap, nddata)} :
        /\ event' = EvExtver("extver_map", ret.res, ret.out)
        /\ UNCHANGED <<heap, nddata, views, attrs, logger>>

ViewExtverMap ==
    /\ views # <<>>
    /\ \E ret \in {Proxy_extver_map(heap, nddata, TheView)} :
           /\ event' = EvExtver("view_extver_map", ret.res, ret.out)
           /\ UNCHANGED <<heap, nddata, views, attrs, logger>>

NextExtver ==
    \/ Next
    \/ ExtverTakeView
    \/ ExtverMap
    \/ ViewExtverMap

SpecExtver == Init /\ [][NextExtver]_vars

(* ---------------------- unit arithmetic specification ----------------- *)
(* A Container of two units, with or without masks of MaskPixels pixels    *)
(* whose values are at most MaxMask (all of them for the first unit), and  *)
(* one in-place operation with an AstroData object of two units of its own *)
(* names, versions and masks.                                              *)
MaskPixels == 1
MaxMask == 3

Masks == {Nothing} \cup {Some(m) : m \in [1..MaskPixels -> 0..MaxMask]}
(* The masks of the second unit of the Container and of the operand.       *)
SecondMasks == {Nothing, Some([p \in 1..MaskPixels |-> 1])}

MaskedUnit(data, ver, mask) ==
    [NewND("SCI", ver, data, mask, Nothing) EXCEPT !.ver = ver]

EvMask(op, res, operand, before) ==
    [op |-> op, res |-> res, name |-> NONE, idx |-> 0, sel |-> OtherSel,
     out |-> <<>>, operand |-> operand, before |-> before]

InitMask ==
    /\ \E m1 \in Masks, m2 \in SecondMasks :
           heap = <<MaskedUnit(4, 1, m1), MaskedUnit(8, 2, m2)>>
    /\ nddata = <<1, 2>>
    /\ views = <<>>
    /\ attrs = <<>>
    /\ event = EvMask("init", "ok", 0, <<>>)
    /\ logger = Logger0

MaskOperands ==
    {[single |-> FALSE,
      nddata |-> <<[data |-> 2, shape |-> Shape0, mask |-> o1, hname |-> "REF",
                    ver |-> 7],
                   [data |-> 1, shape |-> Shape0, mask |-> o2, hname |-> "REF",
                    ver |-> 8]>>] : o1 \in Masks, o2 \in SecondMasks}

(* C += operand, C -= operand, C *= operand or C /= operand                *)
InPlaceOp ==
    /\ event.op = "init"
    /\ \E op \in DOMAIN InPlace, operand \in MaskOperands :
        \E out \in {_standard_nddata_op(heap, nddata, InPlace[op], operand,
                                        <<0, 1>>)} :
            /\ heap' = Collect(out.heap, out.nddata)
            /\ nddata' = Renamed(out.nddata)
            /\ event' = EvMask(op, out.res, operand,
                               [k \in 1..Len(nddata) |-> heap[nddata[k]]])
    /\ UNCHANGED <<views, attrs, logger>>

NextMask == InPlaceOp

SpecMask == InitMask /\ [][NextMask]_vars

(* ----------------------- WCS check specification --------------------- *)
(* A list of up to MaxInputs inputs, none of them processed before, and    *)
(* one call of standardizeWCS on it.  The history keeps the list given     *)
(* (before) and bad_wcs.                                                   *)
MaxInputs == 3

WcsInputs ==
    [phu : {<<>>}, filename : {""}, tags : {{}, {"BIAS"}},
     consistent : BOOLEAN, newgroup : BOOLEAN, pa : {0, 1}, fixed_by : {0}]

EvWcs(op, res, bad_wcs, before) ==
    [op |-> op, res |-> res, name |-> NONE, idx |-> 0, sel |-> OtherSel,
     out |-> <<>>, bad_wcs |-> bad_wcs, before |-> before]

InitWcs ==
    /\ \E n \in 1..MaxInputs : heap \in [1..n -> WcsInputs]
    /\ nddata = <<>>
    /\ views = <<>>
    /\ attrs = [now |-> 1]
    /\ event = EvWcs("init", "ok", NONE, <<>>)
    /\ logger = Logger0

StandardizeWCSList ==
    /\ event.op = "init"
    /\ \E bad_wcs \in BadWcs :
        \E ret \in {standardizeWCS_list(heap, "_wcsStd", bad_wcs,
                                        attrs.now)} :
            /\ heap' = ret.ads
            /\ event' = EvWcs("standardizeWCS", ret.res, bad_wcs, heap)
    /\ UNCHANGED <<nddata, views, attrs, logger>>

NextWcs == StandardizeWCSList

SpecWcs == InitWcs /\ [][NextWcs]_vars

(* ------------------------ registry specification --------------------- *)
(* A Container of two units and no table: tables are appended to it with   *)
(* and without a name, deleted by name, and the Container is the left      *)
(* operand of += with an AstroData object that has tables.  The history    *)
(* keeps the registry before the operation and the table given.            *)
MaxTables == 2
MaxRegSum == 2

RegTables == {Tab(NONE, 1), Tab(NONE, 2), Tab("MDF", 2)}
RegNames == {NONE, "MDF", "TABLE1"}
RegOperands ==
    {[single |-> FALSE, nddata |-> <<OperandUnit, OperandUnit>>,
      tables |-> t] : t \in {<<>>, [CAT |-> Tab("CAT", 3)],
                             [MDF |-> Tab("MDF", 3)]}}

EvReg(op, res, name, table, before) ==
    [op |-> op, res |-> res, name |-> name, idx |-> 0, sel |-> OtherSel,
     out |-> <<>>, table |-> table, before |-> before]

InitReg ==
    /\ heap = TwoUnits.heap
    /\ nddata = TwoUnits.nddata
    /\ views = <<>>
    /\ attrs = Registry0
    /\ event = EvReg("init", "ok", NONE, Tab(NONE, 0), Registry0)
    /\ logger = Logger0

(* c.append(table, name=name)                                              *)
RegAppend ==
    /\ \E table \in RegTables, name \in RegNames :
        \E ret \in {_append_table_top(attrs, table, name)} :
            /\ Cardinality(DOMAIN ret.attrs._tables) <= MaxTables
            /\ attrs' = ret.attrs
            /\ event' = EvReg("append", ret.res, name, table, attrs)
    /\ UNCHANGED <<heap, nddata, views, logger>>

(* del c.NAME                                                              *)
RegDelete ==
    /\ \E name \in {"MDF", "TABLE1", "TABLE2", "CAT"} :
        \E ret \in {Provider_delattr(attrs, name)} :
            /\ attrs' = ret.attrs
            /\ event' = EvReg("delattr", ret.res, name, Tab(NONE, 0), attrs)
    /\ UNCHANGED <<heap, nddata, views, logger>>

(* c += operand                                                            *)
RegIAdd ==
    /\ \E operand \in RegOperands :
        \E out \in {_oper_whole(heap, nddata, attrs, operand,
                                [k \in 1..Len(nddata) |-> k - 1])} :
            /\ \A r \in 1..Len(out.heap) : out.heap[r].data <= MaxRegSum
            /\ Cardinality(DOMAIN out.attrs._tables) <= MaxTables
            /\ heap' = Collect(out.heap, out.nddata)
            /\ nddata' = Renamed(out.nddata)
            /\ attrs' = out.attrs
            /\ event' = EvReg("iadd", out.res, NONE, Tab(NONE, 0), attrs)
    /\ UNCHANGED <<views, logger>>

NextReg ==
    \/ RegAppend
    \/ RegDelete
    \/ RegIAdd

SpecReg == InitReg /\ [][NextReg]_vars

(* ------------------------- frame specification ------------------------ *)
(* A Container of three units, either of frames of FullSide x FullSide     *)
(* pixels (attrs.kind = "frames") or of the arrays of the arithmetic       *)
(* specification ("counts"); a unit of the Container may be appended to it *)
(* again; one View of the Container is held at a time, and through it      *)
(* units are cropped (frames), added to in place (counts) and given a mask *)
(* or an uncertainty.  A behaviour has at most MaxFrameSteps operations.   *)
(* The history keeps the units of the Container before the operation and   *)
(* the index list of the View.                                             *)
MaxFrameSteps == 3
MaxFrameUnits == 4

FrameUnit(ver) ==
    [CropUnit(Nothing, Nothing, {}) EXCEPT !.hver = ver, !.ver = ver]

FrameSelectors ==
    {IntSel(0), IntSel(1), TupleSel(<<2, 0>>),
     SliceSel(Some(1), Some(3), Nothing)}
FrameAttributes == {"mask", "uncertainty"}
FrameValues(kind) ==
    IF kind = "frames" THEN {Nothing, Some(Array(FullSide, FullSide))}
    ELSE {Nothing, Some(2)}

Units(h, nds) == [k \in 1..Len(nds) |-> h[nds[k]]]

EvFrame(op, res, mapping, before) ==
    [op |-> op, res |-> res, name |-> NONE, idx |-> 0, sel |-> OtherSel,
     out |-> <<>>, mapping |-> mapping, before |-> before]

InitFrame ==
    /\ \/ /\ heap = <<FrameUnit(1), FrameUnit(2), FrameUnit(3)>>
          /\ nddata = <<1, 2, 3>>
          /\ attrs = [kind |-> "frames", steps |-> 0]
       \/ /\ heap = ThreeUnits.heap
          /\ nddata = ThreeUnits.nddata
          /\ attrs = [kind |-> "counts", steps |-> 0]
    /\ views = <<>>
    /\ event = EvFrame("init", "ok", <<>>, <<>>)
    /\ logger = Logger0

FrameStep ==
    /\ attrs.steps < MaxFrameSteps
    /\ attrs' = [attrs EXCEPT !.steps = @ + 1]

(* c.append(nd) for the NDData object nd of the unit at position k - 1     *)
FrameAppendAgain ==
    /\ FrameStep
    /\ Len(nddata) < MaxFrameUnits
    /\ \E k \in 1..Len(nddata) :
        \E out \in {_append_nddata(heap, nddata, nddata[k], 0)} :
            /\ heap' = out.heap
            /\ nddata' = out.nddata
            /\ event' = EvFrame("append", out.res, <<>>, Units(heap, nddata))
    /\ UNCHANGED <<views, logger>>

(* v = c[sel], in place of the View held                                   *)
FrameTakeView ==
    /\ FrameStep
    /\ \E sel \in FrameSelectors :
        \E out \in {Provider_getitem(nddata, sel)} :
            /\ out.res = "ok"
            /\ views' = out.view
            /\ event' = EvFrame("getitem", out.res, <<>>, Units(heap, nddata))
    /\ UNCHANGED <<heap, nddata, logger>>

(* v.crop(x1, y1, x2, y2)                                                  *)
FrameCrop ==
    /\ FrameStep
    /\ views # <<>>
    /\ attrs.kind = "frames"
    /\ \E rect \in CropRects :
        \E nds \in {[k \in 1..Len(TheView.mapping) |->
                        At(nddata, _mapped_nddata(TheView, nddata)[k])]} :
            /\ Croppable(nds)
            /\ \E out \in {_crop_impl(heap, nds, rect[1], rect[2],
                                      rect[3], rect[4])} :
                  /\ heap' = out.heap
                  /\ event' = EvFrame("crop", out.res, TheView.mapping,
                                      Units(heap, nddata))
    /\ UNCHANGED <<nddata, views, logger>>

(* v += 1                                                                  *)
FrameIAdd ==
    /\ FrameStep
    /\ views # <<>>
    /\ attrs.kind = "counts"
    /\ \E out \in {_oper(heap, nddata, 1, TheView.mapping)} :
        /\ heap' = Collect(out.heap, out.nddata)
        /\ nddata' = Renamed(out.nddata)
        /\ event' = EvFrame("iadd", out.res, TheView.mapping,
                            Units(heap, nddata))
    /\ UNCHANGED <<views, logger>>

(* v.attr = value                                                          *)
FrameSetAttr ==
    /\ FrameStep
    /\ views # <<>>
    /\ \E attr \in FrameAttributes, value \in FrameValues(attrs.kind) :
        \E out \in {Proxy_setattr(heap, nddata, TheView, attr, value)} :
            /\ heap' = out.heap
            /\ event' = EvFrame("setattr", out.res, TheView.mapping,
                                Units(heap, nddata))
    /\ UNCHANGED <<nddata, views, logger>>

NextFrame ==
    \/ FrameAppendAgain
    \/ FrameTakeView
    \/ FrameCrop
    \/ FrameIAdd
    \/ FrameSetAttr

SpecFrame == InitFrame /\ [][NextFrame]_vars

(* ------------------- claims on append and delete ---------------------- *)
Vers == [k \in 1..Len(nddata) |-> heap[nddata[k]].ver]

(* C1: after any sequence of appends and deletes, the versions of the      *)
(* units in the Container are positive and pairwise distinct.              *)
C1_VersionsPositiveDistinct ==
    \A i, j \in 1..Len(nddata) :
        /\ Vers[i] >= 1
        /\ i # j => Vers[i] # Vers[j]

(* C9: a successful delete(index) removes exactly the unit at that         *)
(* position; every other unit keeps its whole content (version, name,      *)
(* data, mask, uncertainty, side-cars), the relative order is kept and the *)
(* units after the removed position move down by one.                      *)
C9_DeleteRemovesOnlyThatUnit ==
    [][event'.op = "delitem" /\ event'.res = "ok" =>
        LET p == PyIndex(event'.idx, Len(nddata))
            old(k) == IF k <= p THEN k ELSE k + 1
        IN  /\ p >= 0
            /\ Len(nddata') = Len(nddata) - 1
            /\ \A k \in 1..Len(nddata') :
                   heap'[nddata'[k]] = heap[nddata[old(k)]]
            /\ \A j, k \in 1..Len(nddata') :
                   (nddata'[j] = nddata'[k]) = (nddata[old(j)] = nddata[old(k)])
    ]_vars

(* C9 witness: the middle one of three units was deleted and the two left  *)
(* keep versions that are not contiguous.                                  *)
C9_Witness ==
    /\ event.op = "delitem" /\ event.res = "ok" /\ event.idx = 1
    /\ Len(nddata) = 2
    /\ Vers[1] = 1 /\ Vers[2] = 3

(* C10: a raw array appended with no name and no target becomes a new unit *)
(* at the last position, named with the default primary label, with        *)
(* version 1 in an empty Container and otherwise one more than the maximum *)
(* version present; the existing units are unchanged.                      *)
C10_RawArrayAppend ==
    [][event'.op = "append_array" /\ event'.name = NONE =>
        LET n == Len(nddata)
            new == heap'[nddata'[n + 1]]
        IN  /\ event'.res = "ok"
            /\ Len(nddata') = n + 1
            /\ \A k \in 1..n : nddata'[k] # nddata'[n + 1]
            /\ \A k \in 1..n : heap'[nddata'[k]] = heap[nddata[k]]
            /\ \A j, k \in 1..n : (nddata'[j] = nddata'[k]) = (nddata[j] = nddata[k])
            /\ new.hname = default_extension
            /\ n = 0 => new.ver = 1
            /\ n > 0 => /\ \E k \in 1..n : new.ver = Vers[k] + 1
                        /\ \A k \in 1..n : new.ver > Vers[k]
    ]_vars

(* C10 witness: a raw array was appended without a name to a Container     *)
(* whose versions are not 1..n, and got the maximum plus one.              *)
C10_Witness ==
    /\ event.op = "append_array" /\ event.name = NONE /\ event.res = "ok"
    /\ Len(nddata) = 3
    /\ Vers[1] = 3 /\ Vers[2] = 2 /\ Vers[3] = 4

(* ------------------------- claims on slicing -------------------------- *)
(* An index list all of whose entries are positions of a list of n items.  *)
ValidIndexList(m, n) == \A k \in 1..Len(m) : 0 <= m[k] /\ m[k] < n

(* A selector that is valid on n items: a range with a non-zero step, or   *)
(* integers that all lie in -n..n-1.                                       *)
ValidSelector(s, n) ==
    \/ s.kind = "slice" /\ s.step # Some(0)
    \/ /\ s.kind \in {"int", "tuple"}
       /\ \A k \in 1..Len(s.ints) : -n <= s.ints[k] /\ s.ints[k] < n

(* C2: a valid tuple or range selector on a Container gives a View on the  *)
(* index list it resolves to; iterating a View on a valid index list I     *)
(* yields exactly len(I) views, the k-th of which has the (name, version)  *)
(* of the unit at position I[k]; a View of length 0 yields nothing.        *)
C2_SliceIterIdentities ==
    /\ (event.op = "getitem" /\ event.sel.kind = "tuple"
            /\ ValidSelector(event.sel, event.idx)) =>
           /\ event.res = "ok"
           /\ event.out[1].mapping =
                  [k \in 1..Len(event.sel.ints) |->
                      PyIndex(event.sel.ints[k], event.idx)]
    /\ (event.op = "getitem" /\ event.sel.kind = "slice"
            /\ ValidSelector(event.sel, event.idx)) =>
           /\ event.res = "ok"
           /\ ValidIndexList(event.out[1].mapping, event.idx)
    /\ (event.op = "view_iter" /\ ~TheView.single
            /\ ValidIndexList(TheView.mapping, Len(nddata))) =>
           LET I == TheView.mapping
           IN  /\ Len(event.out) = Len(I)
               /\ \A k \in 1..Len(I) :
                      LET pos == _mapped_nddata(event.out[k], nddata)
                      IN  /\ Len(pos) = 1
                          /\ pos[1] # -1
                          /\ Identities(heap, nddata, pos)[1] =
                                 [name |-> Unit(I[k]).hname,
                                  ver |-> Unit(I[k]).ver]

(* C2 witness: the View C[(1, 0)] of a Container whose versions do not     *)
(* start at 1 was iterated and yielded two views.                          *)
C2_Witness ==
    /\ event.op = "view_iter"
    /\ views # <<>> /\ TheView = _slice(<<1, 0>>, TRUE)
    /\ Len(event.out) = 2
    /\ Len(nddata) = 3 /\ heap[nddata[1]].ver = 2

(* C4: a delete leaves the index list of the existing View unchanged; a    *)
(* stored index i that is still below the new length resolves to the unit  *)
(* that was at i before the delete when i is before the removed position   *)
(* and to the unit that was at i + 1 otherwise; a stored index at or past  *)
(* the Container's length raises the out-of-range error when accessed.     *)
C4_NoAutoRebase ==
    [][/\ (event'.op = "delitem" /\ event'.res = "ok" /\ views # <<>>) =>
              LET p == PyIndex(event'.idx, Len(nddata))
                  M == TheView.mapping
                  pos == _mapped_nddata(views'[1], nddata')
              IN  /\ views' = views
                  /\ \A k \in 1..Len(M) : M[k] >= 0 =>
                         IF M[k] < Len(nddata')
                         THEN /\ pos[k] # -1
                              /\ heap'[At(nddata', pos[k])] =
                                     heap[At(nddata, IF M[k] < p THEN M[k]
                                                     ELSE M[k] + 1)]
                         ELSE pos[k] = -1
       /\ (event'.op = "view_read"
              /\ \E k \in 1..Len(TheView.mapping) :
                     TheView.mapping[k] >= Len(nddata)) =>
              event'.res = "IndexError"
    ]_vars

(* C4 witness: C[0:2] was taken on a Container of five units and position  *)
(* 0 was deleted; the View still holds (0, 1), now the units of versions   *)
(* 2 and 3.                                                                *)
C4_Witness ==
    /\ event.op = "delitem" /\ event.res = "ok" /\ event.idx = 0
    /\ views # <<>> /\ TheView = _slice(<<0, 1>>, TRUE)
    /\ Len(nddata) = 4
    /\ \A k \in 1..4 : heap[nddata[k]].ver = k + 1

(* C6: re-slicing a multi View with index list M by a valid selector s     *)
(* gives the View on [M[j] : j in resolve(s, len(M))]; re-slicing a single *)
(* View raises and gives no View.                                          *)
C6_ResliceComposes ==
    [][event'.op = "view_getitem" =>
          LET M == TheView.mapping
              s == event'.sel
              resolved == normalize_indices(s, Len(M)).indices
          IN  /\ TheView.single =>
                     /\ event'.res = "TypeError"
                     /\ event'.out = <<>>
                     /\ views' = views
              /\ (~TheView.single /\ ValidSelector(s, Len(M))) =>
                     /\ event'.res = "ok"
                     /\ views' = event'.out
                     /\ event'.out[1].mapping =
                            [j \in 1..Len(resolved) |-> At(M, resolved[j])]
    ]_vars

(* C6 witness: V = C[::-1][1:] holds (1, 0), where the Container's own     *)
(* positions 1: would be (1, 2).                                           *)
C6_Witness ==
    /\ event.op = "view_getitem" /\ event.res = "ok"
    /\ event.sel = SliceSel(Some(1), Nothing, Nothing)
    /\ event.idx = 3
    /\ TheView = _slice(<<1, 0>>, TRUE)

(* C7: slicing n items with an integer or a tuple of integers that         *)
(* contains an index i >= n or i < -n raises the out-of-range error and    *)
(* returns no View; when every index is in range the slice succeeds, and   *)
(* on a Container a negative index i resolves to n + i.                    *)
C7_OutOfRangeRaises ==
    (event.op \in {"getitem", "view_getitem"}
        /\ event.sel.kind \in {"int", "tuple"}) =>
        LET n == event.idx
            ints == event.sel.ints
        IN  /\ (\E k \in 1..Len(ints) : ints[k] >= n \/ ints[k] < -n) =>
                   event.res = "IndexError" /\ event.out = <<>>
            /\ (\A k \in 1..Len(ints) : -n <= ints[k] /\ ints[k] < n) =>
                   /\ event.res = "ok"
                   /\ event.op = "getitem" =>
                          \A k \in 1..Len(ints) :
                              event.out[1].mapping[k] =
                                  IF ints[k] < 0 THEN n + ints[k] ELSE ints[k]

(* C8: a slice returns a single View exactly when the selector is one      *)
(* integer, whatever the length of the index list; every View yielded by   *)
(* iterating a Container or a View is single.                              *)
C8_SingleIffInteger ==
    /\ (event.op \in {"getitem", "view_getitem"} /\ event.res = "ok") =>
           /\ Len(event.out) = 1
           /\ event.out[1].single <=> event.sel.kind = "int"
    /\ event.op \in {"iter", "view_iter"} =>
           \A k \in 1..Len(event.out) : event.out[k].single

(* C8 witness: C[(0,)] returned a View of length 1 that is not single.     *)
C8_Witness ==
    /\ event.op = "getitem" /\ event.res = "ok"
    /\ event.sel = TupleSel(<<0>>)
    /\ event.out = <<_slice(<<0>>, TRUE)>>

(* ------------------ claims on assignment and aliasing ----------------- *)
(* The reference of the unit that View w reads at its k-th index.          *)
Observed(nds, w, k) == At(nds, _mapped_nddata(w, nds)[k])

(* C3: a value assigned to data, mask, uncertainty, variance or wcs        *)
(* through a single View on index i is afterwards read at position i of    *)
(* the Container and through every live View whose index list contains i;  *)
(* after an in-place addition through a View, each of its positions holds  *)
(* the sum, and every live View whose index list contains that index reads *)
(* the same new unit as the Container.                                     *)
C3_ViewsAliasUnits ==
    [][/\ (event'.op = "view_set" /\ event'.res = "ok") =>
              LET i == views[event'.idx].mapping[1]
                  pos == PyIndex(i, Len(nddata'))
              IN  /\ pos # -1
                  /\ ReadField(heap'[At(nddata', pos)], event'.name) =
                         event'.out[1]
                  /\ \A j \in 1..Len(views') :
                         \A k \in 1..Len(views'[j].mapping) :
                             views'[j].mapping[k] = i =>
                                 ReadField(heap'[Observed(nddata', views'[j], k)],
                                           event'.name) = event'.out[1]
       /\ (event'.op = "view_iadd" /\ event'.res = "ok") =>
              \A m \in 1..Len(views[event'.idx].mapping) :
                  LET i == views[event'.idx].mapping[m]
                      pos == PyIndex(i, Len(nddata))
                  IN  /\ pos # -1
                      /\ heap'[At(nddata', pos)].data =
                             heap[At(nddata, pos)].data + event'.out[1]
                      /\ \A j \in 1..Len(views') :
                             \A k \in 1..Len(views'[j].mapping) :
                                 views'[j].mapping[k] = i =>
                                     Observed(nddata', views'[j], k) =
                                         At(nddata', pos)
    ]_vars

(* C3 witness: with the Views C[:] and C[1] held, in that order, a mask    *)
(* was assigned through C[1]; the Container's unit 1 has it.               *)
C3_Witness ==
    /\ event.op = "view_set" /\ event.res = "ok" /\ event.name = "mask"
    /\ event.idx = 2 /\ event.out = <<Some(2)>>
    /\ views = <<_slice(<<0, 1>>, TRUE), _slice(<<1>>, FALSE)>>
    /\ heap[nddata[2]].mask = Some(2)
    /\ heap[nddata[1]].mask = Nothing

(* C5: an assignment of data, uncertainty, mask, variance or wcs through a *)
(* View that is not single, or on the Container itself, raises an error    *)
(* and leaves every unit unchanged.                                        *)
C5_AssignOnlyThroughSingle ==
    [][(\/ event'.op = "view_set" /\ ~views[event'.idx].single
        \/ event'.op = "set") =>
           /\ event'.res # "ok"
           /\ heap' = heap
           /\ nddata' = nddata
    ]_vars

(* ---------------------- claims on append (2) -------------------------- *)
(* C11: an image unit or data object that carries version v and is         *)
(* appended at the top level with reset_ver=False becomes a unit of        *)
(* version v; otherwise the new unit gets the maximum version plus one.    *)
C11_SuppressedResetKeepsVersion ==
    [][(event'.op \in {"append_imagehdu", "append_nddata"}
            /\ event'.res = "ok") =>
           LET new == heap'[nddata'[Len(nddata')]]
           IN  IF ~event'.reset_ver /\ event'.carried # NoVer
               THEN new.ver = event'.carried
               ELSE new.ver = _get_max_ver(heap, nddata)
    ]_vars

(* The name under which an image unit or array given to append at the top *)
(* level is filed: the mask or uncertainty label given as name, else the   *)
(* EXTNAME it carries, else the name given, else the primary label.        *)
FiledName(name, hname) ==
    IF name \in {"DQ", "VAR"} THEN name
    ELSE IF hname # NONE THEN hname
    ELSE IF name # NONE THEN name
    ELSE default_extension

(* The structurally invalid appends: a primary metadata object, or an      *)
(* array or image unit with no target that is not filed under the primary  *)
(* label (the mask and uncertainty labels included).                       *)
StructurallyInvalid(ev) ==
    \/ ev.op = "append_primaryhdu"
    \/ ev.op = "append_array" /\ FiledName(ev.name, NONE) # default_extension
    \/ ev.op = "append_imagehdu"
           /\ FiledName(ev.name, ev.hname) # default_extension

(* C12: a structurally invalid append raises and leaves the unit list,     *)
(* the units with their versions, and the registry as they were, and with  *)
(* them the version the next append will receive.                          *)
C12_InvalidAppendLeavesContainer ==
    [][StructurallyInvalid(event') =>
           /\ event'.res # "ok"
           /\ nddata' = nddata
           /\ heap' = heap
           /\ attrs' = attrs
           /\ _get_max_ver(heap', nddata') = _get_max_ver(heap, nddata)
    ]_vars

C12_Witness ==
    /\ event.op = "append_imagehdu"
    /\ event.hname = "FOO"
    /\ event.res = "ValueError"
    /\ Len(nddata) = 2
    /\ _get_max_ver(heap, nddata) = 3

(* ------------------- claims on in-place arithmetic -------------------- *)
ArithOps == {"iadd_scalar", "iadd_astrodata"}

(* C13: when an in-place operation over the units of a Container or View   *)
(* fails (operand of another length, or a pair that cannot be combined),   *)
(* every unit of the Container is the unit it was before the operation.    *)
C13_FailedArithmeticReplacesNothing ==
    [][(event'.op \in ArithOps /\ event'.res # "ok") =>
           /\ Len(nddata') = Len(nddata)
           /\ \A k \in 1..Len(nddata) : heap'[nddata'[k]] = heap[nddata[k]]
    ]_vars

(* C14: through a multi View with valid index list M of length k, adding   *)
(* an operand of k units that can be combined replaces the unit at M[j] by *)
(* its sum with the j-th unit of the operand, for every j, and leaves the  *)
(* other units alone; adding a scalar replaces every unit at a position of *)
(* M by its sum with the scalar; an operand of another length raises.      *)
C14_ViewArithmeticPairsUnits ==
    [][(/\ event'.op \in ArithOps
        /\ event'.idx # 0
        /\ ~views[event'.idx].single
        /\ ValidIndexList(event'.indices, Len(nddata))) =>
           LET M == event'.indices
               operand == event'.operand
               InM(pos) == \E j \in 1..Len(M) : M[j] = pos
               Others == \A pos \in 0..(Len(nddata) - 1) :
                             ~InM(pos) =>
                                 heap'[At(nddata', pos)] = heap[At(nddata, pos)]
           IN  IF event'.op = "iadd_scalar"
               THEN /\ event'.res = "ok"
                    /\ Others
                    /\ \A j \in 1..Len(M) :
                           heap'[At(nddata', M[j])]
                               = NDAdd(heap[At(nddata, M[j])], operand)
               ELSE IF Len(operand.nddata) # Len(M)
               THEN event'.res # "ok"
               ELSE (/\ ~operand.single
                     /\ \A j \in 1..Len(M) :
                            Combinable(heap[At(nddata, M[j])],
                                       operand.nddata[j])) =>
                        /\ event'.res = "ok"
                        /\ Others
                        /\ \A j \in 1..Len(M) :
                               heap'[At(nddata', M[j])]
                                   = NDAddND(heap[At(nddata, M[j])],
                                             operand.nddata[j])
    ]_vars

(* ------------------------ claims on attaching ------------------------- *)
(* The mask label, the uncertainty label and the primary label.            *)
ReservedNames == {"DQ", "VAR", default_extension}

(* C15: whatever has been appended or attached, through the Container with *)
(* a target, a single View's append or upper-case assignment on a single   *)
(* View, no unit's other has the mask label, the uncertainty label or the  *)
(* primary label among its keys.                                           *)
C15_NoReservedSideCar ==
    \A r \in 1..Len(heap) : DOMAIN heap[r].other \cap ReservedNames = {}

AttachOps == {"attach", "view_append", "view_setattr"}

(* The name an attached object is filed under when one is given or its     *)
(* header has one.                                                         *)
AttachKey(ev) == IF ev.name # NONE THEN ev.name ELSE ev.ext.hname

(* C16: attaching under a name the unit's other already has is rejected    *)
(* (no call of the program asks for replacement), and the unit, with the   *)
(* object and the header it holds under that name, stays as it was.        *)
C16_ReattachRejected ==
    [][(/\ event'.op \in AttachOps
        /\ AttachKey(event') \in DOMAIN heap[event'.idx].other) =>
           /\ event'.res # "ok"
           /\ heap'[event'.idx] = heap[event'.idx]
    ]_vars

(* --------------------------- claims on crop --------------------------- *)
(* The rectangle (x1, y1)..(x2, y2), bounds included, of the array a.      *)
SubRectangle(a, rect) ==
    [kind |-> "array", oy |-> a.oy + rect[2], ox |-> a.ox + rect[1],
     ny |-> rect[4] - rect[2] + 1, nx |-> rect[3] - rect[1] + 1]

(* The rectangle lies inside an array of the given shape.                  *)
Inside(rect, shape) ==
    /\ 0 <= rect[1] /\ rect[1] <= rect[3] /\ rect[3] < shape[2]
    /\ 0 <= rect[2] /\ rect[2] <= rect[4] /\ rect[4] < shape[1]

(* The units a crop works on: all of them through the Container (idx 0),   *)
(* the unit of the View otherwise.                                         *)
Cropped(ev) == IF ev.idx = 0 THEN 1..Len(nddata) ELSE {ev.idx}

(* C17: crop(x1, y1, x2, y2), with a rectangle inside the data of shape S, *)
(* replaces the unit's data, its uncertainty and mask when it has them,    *)
(* and every entry of other of shape S by their sub-rectangles of shape    *)
(* (y2-y1+1, x2-x1+1), and leaves every other entry of other as it is.     *)
C17_CropCutsEveryPlane ==
    [][event'.op = "crop" =>
           \A k \in Cropped(event') :
               LET old == heap[nddata[k]]
                   new == heap'[nddata[k]]
                   rect == event'.rect
                   S == ShapeOf(old.data)
               IN  Inside(rect, S) =>
                       /\ new.data = SubRectangle(old.data, rect)
                       /\ ShapeOf(new.data)
                              = <<rect[4] - rect[2] + 1, rect[3] - rect[1] + 1>>
                       /\ old.unc # Nothing =>
                              new.unc = Some(SubRectangle(old.unc[1], rect))
                       /\ old.mask # Nothing =>
                              new.mask = Some(SubRectangle(old.mask[1], rect))
                       /\ DOMAIN new.other = DOMAIN old.other
                       /\ \A n \in DOMAIN old.other :
                              new.other[n] =
                                  IF n \in SameShaped(old, S)
                                  THEN SubRectangle(old.other[n], rect)
                                  ELSE old.other[n]
    ]_vars

(* -------------------- claims on the header collection ----------------- *)
(* The positions (from 0) of the units whose header lacks the key.         *)
MissingPositions(key) ==
    {k - 1 : k \in {j \in 1..Len(nddata) :
                        HeaderItem(heap[nddata[j]], key) = Nothing}}

(* The list holds the stored value at every position where the key is.     *)
FoundValues(values, key) ==
    /\ Len(values) = Len(nddata)
    /\ \A k \in 1..Len(nddata) :
           (k - 1) \notin MissingPositions(key) =>
               values[k] = HeaderItem(heap[nddata[k]], key)[1]

(* C18: over N headers of which some lack the key, get(key) without a      *)
(* default raises an error that carries exactly the missing positions and  *)
(* a list of length N with the values found; get(key, default=X) raises    *)
(* nothing and returns the list of length N with X at exactly the missing  *)
(* positions; no header is modified by either.                             *)
C18_PartialGet ==
    [][(event'.op = "hdr_get" /\ MissingPositions(event'.name) # {}) =>
           /\ heap' = heap
           /\ FoundValues(event'.out, event'.name)
           /\ IF event'.default = Nothing
              THEN /\ event'.res = "KeyError"
                   /\ {event'.missing_at[j] :
                           j \in 1..Len(event'.missing_at)}
                          = MissingPositions(event'.name)
                   /\ Len(event'.missing_at)
                          = Cardinality(MissingPositions(event'.name))
              ELSE /\ event'.res = "ok"
                   /\ \A k \in MissingPositions(event'.name) :
                          event'.out[k + 1] = event'.default[1]
    ]_vars

(* The error carries exactly the missing positions, each once.             *)
CarriesMissing(ev) ==
    /\ {ev.missing_at[j] : j \in 1..Len(ev.missing_at)}
           = MissingPositions(ev.name)
    /\ Len(ev.missing_at) = Cardinality(MissingPositions(ev.name))

(* C18 as amended: over N headers of which some lack the key, the item     *)
(* read hdr[key] raises an error that carries exactly the missing          *)
(* positions and a list of length N with the values found; get(key)        *)
(* raises nothing and returns the list of length N with the default (None  *)
(* when the call gives none, X for default=X) at exactly the missing       *)
(* positions and the stored values elsewhere; no header is modified.       *)
C18_PartialGetAmended ==
    [][(event'.op \in {"hdr_getitem", "hdr_get"}
            /\ MissingPositions(event'.name) # {}) =>
           /\ heap' = heap
           /\ FoundValues(event'.out, event'.name)
           /\ IF event'.op = "hdr_getitem"
              THEN /\ event'.res = "KeyError"
                   /\ CarriesMissing(event')
              ELSE /\ event'.res = "ok"
                   /\ \A k \in MissingPositions(event'.name) :
                          event'.out[k + 1] =
                              IF event'.default = Nothing THEN NONE
                              ELSE event'.default[1]
    ]_vars

C18_Witness ==
    /\ event.op = "hdr_getitem"
    /\ event.name = "EXTNAME"
    /\ event.res = "KeyError"
    /\ Len(nddata) = 3
    /\ event.missing_at = <<0, 2>>
    /\ event.out = <<NONE, "SCI", NONE>>

(* -------------------- claims on the windowed operation ---------------- *)
(* The input of the call, its result, and the boxes that hold a cell once  *)
(* they are clipped to the shape.                                          *)
WindowIn == heap[1]
WindowOut == heap[2]
BoxesOf(c) ==
    {i \in 1..Len(event.boxes) :
        InSection(c, Section(event.boxes[i], WindowIn.data.shape))}

(* Along every axis a clipped box has the length of the kernel, but for    *)
(* the box that reaches past the end, which has what is left of the axis.  *)
LastTileShorter ==
    \A i \in 1..Len(event.boxes), k \in 1..Len(event.kernel) :
        LET sl == Section(event.boxes[i], WindowIn.data.shape)[k]
            axis == WindowIn.data.shape[k]
            step == event.kernel[k]
        IN  /\ sl.start % step = 0
            /\ sl.len = IF sl.start + step <= axis THEN step
                        ELSE axis % step
            /\ sl.len > 0

(* C19: for a shape and a kernel of the same rank, the boxes windowedOp    *)
(* generates, clipped to the shape, partition the cells: every cell is in  *)
(* exactly one box, the last box of an axis being shorter when the axis is *)
(* not a multiple of the step; and with a function that returns its        *)
(* window the data of the result equals the data of the input.             *)
C19_TilesPartition ==
    (event.op = "windowedOp"
         /\ Len(event.kernel) = Len(WindowIn.data.shape)) =>
        /\ event.res # "AssertionError"
        /\ \A c \in Indices(WindowIn.data.shape) :
               Cardinality(BoxesOf(c)) = 1
        /\ LastTileShorter
        /\ event.res = "ok" => WindowOut.data = WindowIn.data

C19_Witness ==
    /\ event.op = "windowedOp"
    /\ event.res = "ok"
    /\ event.func.side = {}
    /\ WindowIn.data.shape = <<7, 7>>
    /\ event.kernel = <<2, 2>>
    /\ Len(event.boxes) = 16
    /\ Section(event.boxes[16], <<7, 7>>)[1].len = 1
    /\ Section(event.boxes[16], <<7, 7>>)[2].len = 1
    /\ WindowOut.data.cells[49] = 49

(* The array of a side-car that func returned.                             *)
SideValue(obj) == IF obj.kind = "NDData" THEN obj.data ELSE obj
SameValues(a, b) == a.shape = b.shape /\ a.cells = b.cells

(* C20: when windowedOp returns after more than one box, meta['other'] of  *)
(* the result has the side-car names as its only keys, no (name, coords)   *)
(* key is left, and the entry of a name is an array of the full shape      *)
(* whose section for every box equals the side-car func returned for that  *)
(* box; after exactly one box the entry of a name holds the side-car func  *)
(* returned, as it is.                                                     *)
C20_SideCarsGathered ==
    (event.op = "windowedOp" /\ event.res = "ok") =>
        /\ DOMAIN WindowOut.other = event.func.side
        /\ event.tiled = <<>>
        /\ \A n \in DOMAIN WindowOut.other :
               IF Len(event.boxes) > 1
               THEN /\ WindowOut.other[n].kind = "ndarray"
                    /\ WindowOut.other[n].shape = WindowIn.data.shape
                    /\ \A i \in 1..Len(event.boxes) :
                           SameValues(ndarray_getitem(WindowOut.other[n],
                                                      event.boxes[i]),
                                      SideValue(event.out[i][n]))
               ELSE SameValues(WindowOut.other[n],
                               SideValue(event.out[1][n]))

C20_Witness ==
    /\ event.op = "windowedOp"
    /\ event.res = "ok"
    /\ event.func.side = {"REJMAP", "OBJMASK"}
    /\ WindowIn.data.shape = <<7, 7>>
    /\ event.kernel = <<2, 1>>
    /\ Len(event.boxes) = 28
    /\ DOMAIN WindowOut.other = {"REJMAP", "OBJMASK"}
    /\ WindowOut.other["REJMAP"].cells[49] = 149
    /\ WindowOut.other["OBJMASK"].cells[1] = 201

Loaded == event.op = "load"
(* The places in the file loaded of the extensions called SCI, their       *)
(* versions, and the places of the other extensions of version v.          *)
SciAt == {k \in 2..Len(event.source) :
             event.source[k].hname = default_extension}
SciVersions == {event.source[k].hver : k \in SciAt}
Companions(v) ==
    {k \in 2..Len(event.source) :
        event.source[k].hname # default_extension
            /\ event.source[k].hver = v}
(* A file of k >= 1 SCI image extensions of distinct versions, every other *)
(* extension having the version of one of them.                            *)
Grouped ==
    /\ Loaded
    /\ SciAt # {}
    /\ \A k \in SciAt : event.source[k].kind = "image"
                            /\ event.source[k].hver # NoVer
    /\ \A j, k \in SciAt : j # k =>
           event.source[j].hver # event.source[k].hver
    /\ \A k \in 2..Len(event.source) : event.source[k].hver \in SciVersions
(* The SCI extension that comes j-th by version.                           *)
SciByVersion(j) ==
    CHOOSE k \in SciAt :
        Cardinality({i \in SciAt :
                        event.source[i].hver <= event.source[k].hver}) = j
HasCompanion(v, name) ==
    \E k \in Companions(v) : event.source[k].hname = name
UnitBuiltFrom(j, k) ==
    LET nd == heap[nddata[j]]
        v == event.source[k].hver
    IN  /\ nd.data.id = event.source[k].id
        /\ nd.mask # Nothing <=> HasCompanion(v, "DQ")
        /\ nd.unc # Nothing <=> HasCompanion(v, "VAR")
        /\ DOMAIN nd.other =
               {event.source[i].hname :
                   i \in {c \in Companions(v) :
                             event.source[c].hname
                                 \notin {"DQ", "VAR", "WCS"}}}

(* C22: loading a file of a primary HDU and k SCI extensions of distinct   *)
(* versions, each with or without DQ, VAR and other extensions of its      *)
(* version, gives k units in the order of the versions; the unit of        *)
(* version v has a mask iff there is a DQ of version v, an uncertainty iff *)
(* there is a VAR of version v, and holds exactly the other extensions of  *)
(* version v in other; with memory mapping and without.                    *)
C22_GroupedLoad ==
    Grouped =>
        /\ event.res = "ok"
        /\ Len(nddata) = Cardinality(SciAt)
        /\ \A j \in 1..Len(nddata) : UnitBuiltFrom(j, SciByVersion(j))

(* C23: a load of a file that, once prepared, has no SCI extension (only   *)
(* the primary HDU, or only tables and other extensions besides it)        *)
(* raises, and gives no Container.                                         *)
NoPrimaryArray ==
    /\ Loaded
    /\ \A k \in 2..Len(event.hdulist) :
           event.hdulist[k].hname # default_extension
C23_NoPrimaryArrayFatal ==
    NoPrimaryArray => event.res # "ok"

(* The HDUs of the prepared file that no unit claims: those that are not   *)
(* SCI and have no name, or are MDF or REFCAT, or have the version of no   *)
(* SCI extension.                                                          *)
Strays ==
    {k \in 2..Len(event.hdulist) :
        /\ event.hdulist[k].hname # default_extension
        /\ \/ event.hdulist[k].hname \in skip_names \cup {NONE}
           \/ \A j \in 2..Len(event.hdulist) :
                  event.hdulist[j].hname = default_extension =>
                      event.hdulist[j].hver # event.hdulist[k].hver}

(* C24: a stray extension that cannot be attached, whatever the reason     *)
(* (its name is taken, it has no name), never aborts the load: when        *)
(* nothing but the strays is wrong with the file, load returns a Container *)
(* with one unit for every SCI extension and every stray table that has a  *)
(* name.                                                                   *)
C24_StrayNeverAborts ==
    (/\ Loaded
     /\ Strays # {}
     /\ \A k \in 2..Len(event.hdulist) :
            k \notin Strays => event.hdulist[k].fwcs # "TypeError") =>
        /\ event.res = "ok"
        /\ Len(nddata) =
               Cardinality({k \in 2..Len(event.hdulist) :
                               event.hdulist[k].hname = default_extension})
        /\ \A k \in Strays :
               (event.hdulist[k].kind = "table"
                    /\ event.hdulist[k].hname # NONE) =>
                   event.hdulist[k].hname \in DOMAIN attrs

(* The HDU of the prepared file a unit was built from, and the WCS tables  *)
(* of its version.                                                         *)
HduOf(j) ==
    CHOOSE k \in 2..Len(event.hdulist) :
        event.hdulist[k].id = heap[nddata[j]].data.id
WcsTables(v) ==
    {k \in 2..Len(event.hdulist) :
        event.hdulist[k].hname = "WCS" /\ event.hdulist[k].hver = v}
TransformResolved(j) ==
    LET unit == event.hdulist[HduOf(j)]
        phu == event.hdulist[1]
        wcs == heap[nddata[j]].wcs
    IN  IF WcsTables(unit.hver) # {}
        THEN (\A k \in WcsTables(unit.hver) : event.hdulist[k].parses) =>
                 wcs # Nothing /\ wcs[1].from = "table"
        ELSE IF unit.fwcs = "gwcs"
        THEN wcs = Some([from |-> "header", id |-> unit.id])
        ELSE IF unit.fwcs = "none" /\ phu.fwcs = "gwcs"
        THEN wcs = Some([from |-> "phu", id |-> phu.id])
        ELSE IF unit.fwcs = "none" THEN wcs = Nothing
        ELSE wcs = Nothing \/ wcs = Some([from |-> "phu", id |-> phu.id])

(* C25: with memory mapping and without, the transform of a unit is the    *)
(* one of the WCS table of its version if there is one; else the one its   *)
(* own header gives; else the one the primary header gives; and when none  *)
(* is had, a derivation that raises included, the unit has no transform    *)
(* and the load succeeds.                                                  *)
C25_TransformOrder ==
    (/\ Loaded
     /\ \A k \in 2..Len(event.hdulist) : event.hdulist[k].hname # NONE) =>
        /\ event.res = "ok"
        /\ \A j \in 1..Len(nddata) : TransformResolved(j)

(* What C26 says of the list _prepare_hdulist returns, part by part.       *)
PrimaryFirst ==
    /\ event.hdulist[1].kind = "primary"
    /\ \A k \in 2..Len(event.hdulist) : event.hdulist[k].kind # "primary"
    /\ event.res = "ok" =>
           \A j \in 1..Len(nddata) :
               heap[nddata[j]].data.id # event.hdulist[1].id
ImagesAddressable ==
    \A k \in 2..Len(event.hdulist) :
        event.hdulist[k].kind = "image" =>
            event.hdulist[k].hname # NONE /\ event.hdulist[k].hver # NoVer
OrderedByVersion ==
    \A k, l \in 2..Len(event.hdulist) :
        k < l =>
            /\ event.hdulist[k].hver = NoVer => event.hdulist[l].hver = NoVer
            /\ event.hdulist[l].hver # NoVer =>
                   event.hdulist[k].hver <= event.hdulist[l].hver
            /\ (event.hdulist[k].hver = event.hdulist[l].hver
                    /\ event.hdulist[l].hname = default_extension) =>
                   event.hdulist[k].hname = default_extension
SciDistinctIn(list) ==
    \A k, l \in 2..Len(list) :
        (k # l /\ list[k].hname = default_extension
               /\ list[l].hname = default_extension
               /\ list[k].hver # NoVer) =>
            list[k].hver # list[l].hver

(* C26: in the list _prepare_hdulist returns the primary HDU is first and  *)
(* no unit is built from it, every image extension has EXTNAME and EXTVER, *)
(* the extensions are in the order of their versions with SCI first within *)
(* a version, and no two SCI extensions have the same version when no two  *)
(* of the file had.                                                        *)
C26_PreparedList ==
    Loaded =>
        /\ PrimaryFirst
        /\ ImagesAddressable
        /\ OrderedByVersion
        /\ SciDistinctIn(event.source) => SciDistinctIn(event.hdulist)

(* ---------------------- claims on the serializer ---------------------- *)

(* Where an HDU of the list written belongs: its unit (the tables of the   *)
(* Container come after the last unit), its part, and for a side-car or a  *)
(* table its name.                                                         *)
UnitOrder(hdu) ==
    IF hdu.of.unit = 0 THEN Len(nddata) + 1 ELSE hdu.of.unit
RoleOrder(hdu) ==
    IF hdu.of.role = "data" THEN 1
    ELSE IF hdu.of.role = "uncertainty" THEN 2
    ELSE IF hdu.of.role = "mask" THEN 3
    ELSE IF hdu.of.role = "wcs" THEN 4
    ELSE 5
NameIndex(name) == CHOOSE i \in 1..Len(Alphabet) : Alphabet[i] = name
InClaimedOrder(a, b) ==
    \/ UnitOrder(a) < UnitOrder(b)
    \/ /\ UnitOrder(a) = UnitOrder(b)
       /\ \/ RoleOrder(a) < RoleOrder(b)
          \/ /\ RoleOrder(a) = 5
             /\ RoleOrder(b) = 5
             /\ NameIndex(a.of.role) < NameIndex(b.of.role)
AllWritten(hlst) ==
    /\ \A j \in 1..Len(nddata) :
        LET ext == heap[nddata[j]]
            Has(role) == \E k \in 2..Len(hlst) :
                             hlst[k].of = [unit |-> j, role |-> role]
        IN  /\ Has("data")
            /\ Has("uncertainty") <=> ext.unc # Nothing
            /\ Has("mask") <=> ext.mask # Nothing
            /\ \A n \in DOMAIN ext.other : Has(n)
    /\ \A n \in DOMAIN attrs :
           \E k \in 2..Len(hlst) : hlst[k].of = [unit |-> 0, role |-> n]

(* C28: to_hdulist gives the primary HDU first; then, unit by unit in the  *)
(* order of the positions, the data, the uncertainty if there is one, the  *)
(* mask if there is one, the WCS table, and the other side-cars of the     *)
(* unit in the order of their names, whatever the order in which they      *)
(* were attached; and last the tables of the Container in the order of     *)
(* their names.                                                            *)
C28_WriteOrder ==
    event.op = "write" =>
        /\ event.hlst[1].kind = "primary"
        /\ AllWritten(event.hlst)
        /\ \A p, q \in 2..Len(event.hlst) :
               p < q => InClaimedOrder(event.hlst[p], event.hlst[q])

(* The list written (event.hlst), what load made of it (event.loaded) and  *)
(* the list written from that (event.again).                               *)
RoundTripped == event.op = "roundtrip"
Layout(hlst) == [k \in 1..Len(hlst) |-> <<hlst[k].kind, hlst[k].hname>>]
DataHduOf(j) ==
    CHOOSE k \in 2..Len(event.hlst) :
        event.hlst[k].of = [unit |-> j, role |-> "data"]
SameUnit(j) ==
    LET old == heap[nddata[j]]
        new == event.loaded.heap[event.loaded.nddata[j]]
    IN  /\ new.data.id = event.hlst[DataHduOf(j)].id
        /\ new.mask # Nothing <=> old.mask # Nothing
        /\ new.unc # Nothing <=> old.unc # Nothing

(* C27: loading what to_hdulist gives for a Container gives a Container of *)
(* as many units, in the same order, each with the data written for the    *)
(* unit at its position and a mask and an uncertainty exactly when that    *)
(* unit has one, and to_hdulist of it gives the same kinds and names of    *)
(* extensions in the same order.                                           *)
C27_RoundTrip ==
    RoundTripped =>
        /\ event.res = "ok"
        /\ Len(event.loaded.nddata) = Len(nddata)
        /\ \A j \in 1..Len(nddata) : SameUnit(j)
        /\ Layout(event.again) = Layout(event.hlst)

(* ------------------------ claims on lazy reads ------------------------- *)

(* scale * raw + zero on the cells start+1..stop of the stored array.      *)
Corrected(obj, sl) ==
    [i \in 1..(sl.stop - sl.start) |->
        obj._orig_bscale * obj.raw[sl.start + i] + obj._orig_bzero]

(* C29: for every stored integer array, scale, zero point and section s, a *)
(* read of the section through the FitsLazyLoadable gives the values that  *)
(* the section s of its data gives, both being scale * raw + zero there    *)
(* (raw itself for scale 1 and zero 0), a DQ extension with negative       *)
(* stored values included; a read of data gives scale * raw + zero         *)
(* everywhere.                                                             *)
C29_LazyReads ==
    /\ event.op = "lazy_getitem" =>
           /\ event.out.cells = Corrected(heap[1], event.sel)
           /\ event.out.cells =
                  SubSeq(FitsLazyLoadable_data(heap[1]).cells,
                         event.sel.start + 1, event.sel.stop)
    /\ event.op = "lazy_data" =>
           event.out.cells = Corrected(heap[1], event.sel)

(* ------------------------ claims on the primitives --------------------- *)

Primitives == DOMAIN timestamp_keys

(* C30: a run of addMDF, standardizeObservatoryHeaders,                    *)
(* standardizeStructure or standardizeWCS on an input whose PHU already    *)
(* has the timestamp key of that primitive changes nothing of the input:   *)
(* headers, timestamp, filename, tables and transforms stay as they are.   *)
C30_SecondRunNoOp ==
    [][(/\ event'.op \in Primitives
        /\ timestamp_keys[event'.op] \in DOMAIN heap[1].phu) =>
           heap' = heap
    ]_vars

(* ----------------------- claims on path and filename ------------------- *)

(* C31: across any sequence of assignments of path and filename the        *)
(* original name is None until a path that is not None is assigned, and    *)
(* from then on it is the base name of that first path, whatever is        *)
(* assigned later (None and then a new path included).                     *)
C31_OriginalNameOnce == attrs._orig_filename = event.first

(* C32: an assignment of filename to a Container that has a path keeps the *)
(* directory of the path: a relative name gives the old directory joined   *)
(* with the name, an absolute name is a ValueError that changes nothing;   *)
(* an assignment of path or filename through a View raises and changes     *)
(* nothing.                                                                *)
C32_FilenameKeepsDirectory ==
    /\ (event.op = "filename" /\ event.before._path # Nothing) =>
          IF isabs(event.value[1])
          THEN event.res = "ValueError" /\ attrs = event.before
          ELSE /\ event.res = "ok"
               /\ attrs._path =
                      Some(join(dirname(event.before._path[1]),
                                event.value[1]))
               /\ dirname(attrs._path[1]) = dirname(event.before._path[1])
    /\ event.op \in {"view_path", "view_filename"} =>
          event.res = "AttributeError" /\ attrs = event.before

(* --------------------------- claims on Views --------------------------- *)

ViewOps == {"view_delitem", "view_append", "view_setattr", "view_iadd"}

(* The Container positions the View held refers to.                        *)
Referenced ==
    {_mapped_nddata(TheView, nddata)[k] : k \in 1..Len(TheView.mapping)}

(* C33: an operation of a View leaves the number and order of the          *)
(* Container's units, every unit the View does not refer to and the        *)
(* registry of tables as they are: del v[idx] always raises and changes    *)
(* nothing, v.append raises and changes nothing unless the View is single  *)
(* and a name is given, and then changes only the unit referred to, and    *)
(* v += operand replaces only units at the indices of the View.            *)
C33_ViewsLeaveContainer ==
    [][event'.op \in ViewOps =>
        /\ Len(nddata') = Len(nddata)
        /\ \A k \in 1..Len(nddata) :
               /\ heap'[nddata'[k]].ver = heap[nddata[k]].ver
               /\ (k - 1) \notin Referenced =>
                      heap'[nddata'[k]] = heap[nddata[k]]
        /\ attrs'._tables = attrs._tables
        /\ event'.op = "view_delitem" =>
               event'.res = "TypeError" /\ heap' = heap
        /\ (event'.op = "view_append"
               /\ (~TheView.single \/ event'.name = NONE)) =>
               event'.res = "TypeError" /\ heap' = heap
    ]_vars

(* -------------------------- claims on extver_map ----------------------- *)

(* The View held refers to units the Container has.                        *)
ViewValid ==
    \A k \in 1..Len(TheView.mapping) : _mapped_nddata(TheView, nddata)[k] # -1

(* C34: extver_map() on a Container gives one entry for each unit, from    *)
(* the version of the unit to its position; on a View of several units it  *)
(* gives, for each unit referred to, its position within the View; on a    *)
(* single View it raises.                                                  *)
C34_ExtverMap ==
    /\ event.op = "extver_map" =>
          /\ event.res = "ok"
          /\ Cardinality(DOMAIN event.out) = Len(nddata)
          /\ \A k \in 1..Len(nddata) :
                 event.out[heap[nddata[k]].ver] = k - 1
    /\ (event.op = "view_extver_map" /\ TheView.single) =>
          event.res = "ValueError"
    /\ (event.op = "view_extver_map" /\ ~TheView.single /\ ViewValid) =>
          /\ event.res = "ok"
          /\ Cardinality(DOMAIN event.out) = Len(TheView.mapping)
          /\ \A j \in 1..Len(TheView.mapping) :
                 event.out[heap[At(nddata,
                                   _mapped_nddata(TheView, nddata)[j])].ver]
                     = j - 1

(* ----------------------- claims on unit arithmetic --------------------- *)

(* C35: after an in-place add, subtract, multiply or divide every unit     *)
(* whose two operands both have a mask has, at each pixel, the bitwise OR  *)
(* of the two mask values, and every unit keeps the name and the version   *)
(* of the left operand.                                                    *)
C35_MasksOrMetaFirst ==
    (event.op \in DOMAIN InPlace /\ event.res = "ok") =>
        \A k \in 1..Len(nddata) :
            LET left == event.before[k]
                right == event.operand.nddata[k]
                new == heap[nddata[k]]
            IN  /\ (left.mask # Nothing /\ right.mask # Nothing) =>
                       /\ new.mask # Nothing
                       /\ \A p \in 1..MaskPixels :
                              new.mask[1][p] =
                                  bitwise_or(left.mask[1][p],
                                             right.mask[1][p])
                /\ new.hname = left.hname
                /\ new.ver = left.ver
                /\ new.hver = left.hver

(* Masks 0b01 and 0b10 at a pixel have given 0b11 at that pixel.           *)
C35_Witness ==
    /\ event.op = "iadd"
    /\ event.res = "ok"
    /\ event.before[1].mask = Some([p \in 1..MaskPixels |-> 1])
    /\ event.operand.nddata[1].mask = Some([p \in 1..MaskPixels |-> 2])
    /\ heap[nddata[1]].mask = Some([p \in 1..MaskPixels |-> 3])
    /\ heap[nddata[1]].ver = 1

(* ------------------------ claims on standardizeWCS --------------------- *)

Marked(ad) == timestamp_keys.standardizeWCS \in DOMAIN ad.phu

(* An input of the list given that is not skipped and whose pointing is    *)
(* not self-consistent.                                                    *)
BadInput(ads, i) == ~Skipped(ads[i]) /\ ~ads[i].consistent

(* C36: with bad_wcs = 'exit' standardizeWCS raises exactly when some      *)
(* input that its tags do not skip has a pointing that is not              *)
(* self-consistent, and when it raises every input is as it was given: no  *)
(* timestamp, no new filename, the WCS untouched; with 'ignore' it returns *)
(* the inputs as they were given.                                          *)
C36_ExitAndIgnore ==
    /\ (event.op = "standardizeWCS" /\ event.bad_wcs = "exit") =>
          /\ event.res # "ok" <=>
                 \E i \in 1..Len(event.before) : BadInput(event.before, i)
          /\ event.res # "ok" => heap = event.before
    /\ (event.op = "standardizeWCS" /\ event.bad_wcs = "ignore") =>
          event.res = "ok" /\ heap = event.before

(* An exit was asked for, one of three inputs was bad, and the call raised *)
(* having marked none of them.                                             *)
C36_Witness ==
    /\ event.op = "standardizeWCS"
    /\ event.bad_wcs = "exit"
    /\ event.res = "ValueError"
    /\ Len(heap) = 3
    /\ BadInput(event.before, 2)
    /\ event.before[1].consistent
    /\ \A i \in 1..Len(heap) : ~Marked(heap[i])


(* The group of input i: the number of non-skipped inputs up to i that     *)
(* start a new group, the first non-skipped input not counted.             *)
FirstWorked(ads) ==
    IF \E k \in 1..Len(ads) : ~Skipped(ads[k])
    THEN CHOOSE k \in 1..Len(ads) :
             ~Skipped(ads[k]) /\ \A j \in 1..(k - 1) : Skipped(ads[j])
    ELSE 0

GroupOf(ads, i) ==
    Cardinality({k \in 1..i : ~Skipped(ads[k]) /\ ads[k].newgroup
                              /\ k # FirstWorked(ads)})

GoodPointing(ads, j) == ~Skipped(ads[j]) /\ ads[j].consistent

(* C37: with bad_wcs = 'fix', after a normal return every input that is    *)
(* not skipped and not self-consistent has its WCS fixed from a            *)
(* self-consistent pointing of its own group; a group without such a       *)
(* pointing, the last group included, makes the primitive raise.           *)
C37_FixOrRaise ==
    (event.op = "standardizeWCS" /\ event.bad_wcs = "fix") =>
        /\ event.res = "ok" =>
              \A i \in 1..Len(heap) :
                  BadInput(event.before, i) =>
                      /\ heap[i].fixed_by # 0
                      /\ GoodPointing(event.before, heap[i].fixed_by)
                      /\ GroupOf(event.before, heap[i].fixed_by)
                             = GroupOf(event.before, i)
        /\ (\E i \in 1..Len(event.before) :
               /\ BadInput(event.before, i)
               /\ \A j \in 1..Len(event.before) :
                      ~(GoodPointing(event.before, j)
                        /\ GroupOf(event.before, j)
                               = GroupOf(event.before, i)))
           => event.res # "ok"

(* ---------------------- claims on the table registry ------------------- *)

(* The name resolves to the registered table: it is an attribute of the    *)
(* Container and the attribute is the table of the registry.               *)
Resolves(at, n) == n \in DOMAIN at.dict /\ at.dict[n] = at._tables[n]

(* C38: after table appends with and without a name, deletions by name and *)
(* += with an AstroData object that has tables, the names the Container    *)
(* exposes are the names of its registry, each of them resolves to the     *)
(* registered table, and the append of a table without a name leaves       *)
(* every entry the registry had as it was.                                 *)
C38_ExposedIsRegistry ==
    /\ attrs._exposed = DOMAIN attrs._tables
    /\ \A n \in DOMAIN attrs._tables : Resolves(attrs, n)
    /\ (event.op = "append" /\ event.name = NONE
        /\ event.table.hname = NONE) =>
           \A n \in DOMAIN event.before._tables :
               /\ n \in DOMAIN attrs._tables
               /\ attrs._tables[n] = event.before._tables[n]

(* --------------------- claim on the inputs of windowedOp --------------- *)

FrameOps == {"crop", "iadd", "setattr"}

(* C40: crop, in-place arithmetic and attribute assignment through a View  *)
(* with index list M leave the unit at every position of the Container     *)
(* that is not in M as it was (data, mask, uncertainty, side-cars,         *)
(* version), and the Container has the units it had, in their order.       *)
C40_ViewFrame ==
    event.op \in FrameOps =>
        /\ Len(nddata) = Len(event.before)
        /\ \A k \in 1..Len(nddata) :
               /\ heap[nddata[k]].ver = event.before[k].ver
               /\ (\A j \in 1..Len(event.mapping) :
                       event.mapping[j] # k - 1)
                  => heap[nddata[k]] = event.before[k]

====
